---------------------------- MODULE Spec2Model ----------------------------
(***************************************************************************)
(* A model of the pronunciation-analysis backend:                          *)
(*   - the mismatch detector (pronunciation_ai.find_bad_words),            *)
(*   - the clip download endpoint (views.CorrectionClipDownloadAPIView),   *)
(*   - the processing endpoint (views.ProcessAudioAPIView) with its        *)
(*     content-addressed analysis cache.                                   *)
(* Texts, file names and identifiers are sequences of one-character        *)
(* strings, so that the conversions of the code (lowercasing, regular      *)
(* expressions, UUID parsing and formatting) are computed, not assumed.    *)
(* Indices of sequences follow Python: 0-based, half-open ranges; the      *)
(* element at Python index i of s is s[i + 1].                             *)
(***************************************************************************)
EXTENDS Integers, Sequences, FiniteSets, TLC

VARIABLES
    \* ---- mismatch detector (find_bad_words) ----
    reference_text,     \* argument reference_text of the current call
    recognized_text,    \* argument recognized_text of the current call
    orig_words,         \* local orig_words of the last call
    rec_words,          \* local rec_words of the last call
    flagged,            \* reference indices the last call's opcode loop flagged
    results,            \* the lists returned by the calls made so far
    \* ---- clip download (CorrectionClipDownloadAPIView.get) ----
    fs,                 \* the file system: path -> node, for the paths that exist
    dl_pc,              \* position of the handler in the current request
    dl_task_id,         \* argument task_id
    dl_filename,        \* argument filename
    dl_base_dir,        \* local base_dir
    dl_file_path,       \* local file_path
    dl_passed,          \* the checks the current request has passed
    dl_fs_ops,          \* the file system calls the current request has made
    dl_response,        \* the response returned
    \* ---- processing (ProcessAudioAPIView.post) ----
    settings,           \* the Django settings the view reads
    tasks,              \* MEDIA_ROOT/audio_tasks: task id -> its directory
    tmp_dirs,           \* MEDIA_ROOT/audio_tmp: tmp id -> the files in it
    uuid4_count,        \* how many random tmp ids were drawn
    reqs,               \* request -> position and locals of its post() call
    \* ---- container validator (validate_wav_16k_mono) ----
    wav_file,           \* the file at wav_path
    wav_results,        \* the pairs returned by the calls made so far
    \* ---- clip generation (generate_correction_clips_yandex) ----
    clip_words,         \* argument words
    clip_setting,       \* settings.PRONUNCIATION_MAX_CLIPS
    clip_dir,           \* output_dir: file name -> content
    clip_results,       \* what the calls made so far returned and did
    clip_runs,          \* run -> position and locals of a call in progress
    \* ---- model cache (_get_vosk_model) ----
    vosk_installed,     \* the import of vosk.Model succeeded
    model_cache,        \* _MODEL_CACHE: key -> model handle
    model_loaded,       \* the keys Model(...) was constructed for, in order
    model_threads,      \* thread -> position and locals of its call
    model_returned      \* the <<key, handle>> pairs the calls returned

diffVars == <<reference_text, recognized_text, orig_words, rec_words,
              flagged, results>>
dlVars == <<fs, dl_pc, dl_task_id, dl_filename, dl_base_dir, dl_file_path,
            dl_passed, dl_fs_ops, dl_response>>
procVars == <<settings, tasks, tmp_dirs, uuid4_count, reqs>>
wavVars == <<wav_file, wav_results>>
clipVars == <<clip_words, clip_setting, clip_dir, clip_results, clip_runs>>
cacheVars == <<vosk_installed, model_cache, model_loaded, model_threads,
               model_returned>>
vars == <<diffVars, dlVars, procVars, wavVars, clipVars, cacheVars>>

(***************************************************************************)
(* Bounds of the model.                                                    *)
(***************************************************************************)
MaxRefWords == 3        \* raw words in a generated reference text
MaxRecWords == 2        \* raw words in a generated recognized text
MaxCalls == 2           \* calls of find_bad_words on the same arguments
MaxStemLen == 2         \* characters before the suffix of a generated file name
MaxLinkHops == 4        \* symbolic links followed while resolving one path
MaxRequests == 2        \* processing requests in one behaviour
MaxClipWords == 2       \* words in a generated mismatch list

(***************************************************************************)
(* Characters.                                                             *)
(***************************************************************************)
LowerLetters ==
    <<"a", "b", "c", "d", "e", "f", "g", "h", "i", "j", "k", "l", "m",
      "n", "o", "p", "q", "r", "s", "t", "u", "v", "w", "x", "y", "z">>
UpperLetters ==
    <<"A", "B", "C", "D", "E", "F", "G", "H", "I", "J", "K", "L", "M",
      "N", "O", "P", "Q", "R", "S", "T", "U", "V", "W", "X", "Y", "Z">>
DigitChars == {"0", "1", "2", "3", "4", "5", "6", "7", "8", "9"}
Range(s) == {s[i] : i \in 1..Len(s)}
UpperChars == Range(UpperLetters)
LetterChars == Range(LowerLetters) \cup UpperChars
\* \s of the re module, for the characters of the model
SpaceChars == {" ", "\t", "\n", "\r"}
\* \w of the re module, for the characters of the model
WordChars == LetterChars \cup DigitChars \cup {"_"}
WordOrSpaceChars == WordChars \cup SpaceChars

\* str.lower() on one character
LowerChar(c) ==
    IF c \in UpperChars
    THEN LowerLetters[CHOOSE i \in 1..Len(UpperLetters) : UpperLetters[i] = c]
    ELSE c
\* str.lower()
Lower(s) == [i \in 1..Len(s) |-> LowerChar(s[i])]

\* s[lo:hi] of Python, for 0 <= lo and 0 <= hi
Slice(s, lo, hi) ==
    LET h == IF hi > Len(s) THEN Len(s) ELSE hi
    IN IF h <= lo THEN <<>> ELSE SubSeq(s, lo + 1, h)

RECURSIVE Join(_, _)
\* sep.join(parts)
Join(parts, sep) ==
    IF Len(parts) = 0 THEN <<>>
    ELSE IF Len(parts) = 1 THEN parts[1]
    ELSE parts[1] \o sep \o Join(Tail(parts), sep)

\* All sequences over S of length at most n
SeqsUpTo(S, n) == UNION {[1..k -> S] : k \in 0..n}

(***************************************************************************)
(* Text comparison: _clean_text_words.                                     *)
(***************************************************************************)
\* re.sub(r"[^\w\s]", " ", text)
StripPunctuation(s) ==
    [i \in 1..Len(s) |->
        IF s[i] \in WordOrSpaceChars THEN s[i] ELSE " "]

RECURSIVE SplitFrom(_, _, _)
\* str.split(): the maximal runs of non-space characters, in order.
\* cur is the run being read, i the 1-based position of the next character.
SplitFrom(s, i, cur) ==
    IF i > Len(s)
    THEN IF cur = <<>> THEN <<>> ELSE <<cur>>
    ELSE IF s[i] \in SpaceChars
         THEN IF cur = <<>> THEN SplitFrom(s, i + 1, <<>>)
              ELSE <<cur>> \o SplitFrom(s, i + 1, <<>>)
         ELSE SplitFrom(s, i + 1, Append(cur, s[i]))
Split(s) == SplitFrom(s, 1, <<>>)

\* The variant that forgets to lowercase
CleanTextWordsNoLower(text) ==
    SelectSeq(Split(StripPunctuation(text)), LAMBDA w : w # <<>>)
_clean_text_words(text) ==
    SelectSeq(Split(StripPunctuation(Lower(text))), LAMBDA w : w # <<>>)

(***************************************************************************)
(* difflib.SequenceMatcher(None, a, b), as find_bad_words uses it: no junk *)
(* predicate, and the "popular element" heuristic off (it needs a second   *)
(* sequence of 200 elements or more).                                      *)
(***************************************************************************)
RECURSIVE SuffixLen(_, _, _, _, _, _)
\* j2len[j] while the outer loop is at i: the length of the longest common
\* run of a[alo:i+1] and b[blo:j+1] that ends at a[i] and b[j].
SuffixLen(a, b, i, j, alo, blo) ==
    IF i < alo \/ j < blo THEN 0
    ELSE IF a[i + 1] # b[j + 1] THEN 0
    ELSE 1 + SuffixLen(a, b, i - 1, j - 1, alo, blo)

RECURSIVE ScanJ(_, _, _, _, _, _, _, _)
ScanJ(a, b, i, j, alo, blo, bhi, best) ==
    IF j >= bhi THEN best
    ELSE LET k == SuffixLen(a, b, i, j, alo, blo)
             new == IF k > best[3] THEN <<i - k + 1, j - k + 1, k>> ELSE best
         IN ScanJ(a, b, i, j + 1, alo, blo, bhi, new)

RECURSIVE ScanI(_, _, _, _, _, _, _, _)
ScanI(a, b, i, alo, ahi, blo, bhi, best) ==
    IF i >= ahi THEN best
    ELSE ScanI(a, b, i + 1, alo, ahi, blo, bhi,
               ScanJ(a, b, i, blo, alo, blo, bhi, best))

\* find_longest_match(alo, ahi, blo, bhi): <<besti, bestj, bestsize>>.
\* The scan keeps the first block of maximal size in the order of the
\* loops (i ascending, then j ascending) because it replaces the best
\* block only by a strictly longer one.
find_longest_match(a, b, alo, ahi, blo, bhi) ==
    ScanI(a, b, alo, alo, ahi, blo, bhi, <<alo, blo, 0>>)

RECURSIVE MatchBlocks(_, _, _, _, _, _)
\* The blocks get_matching_blocks collects from its work queue, already in
\* the order its sort() puts them: the blocks left of a match come before
\* it and the blocks right of it after.
MatchBlocks(a, b, alo, ahi, blo, bhi) ==
    LET x == find_longest_match(a, b, alo, ahi, blo, bhi)
        i == x[1]
        j == x[2]
        k == x[3]
    IN IF k = 0 THEN <<>>
       ELSE (IF alo < i /\ blo < j
                THEN MatchBlocks(a, b, alo, i, blo, j) ELSE <<>>)
            \o <<x>>
            \o (IF i + k < ahi /\ j + k < bhi
                THEN MatchBlocks(a, b, i + k, ahi, j + k, bhi) ELSE <<>>)

RECURSIVE Collapse(_, _, _)
\* The loop of get_matching_blocks that merges adjacent blocks; cur is
\* <<i1, j1, k1>>, n the 1-based position of the next block.
Collapse(blocks, n, cur) ==
    IF n > Len(blocks)
    THEN IF cur[3] > 0 THEN <<cur>> ELSE <<>>
    ELSE LET nx == blocks[n]
         IN IF cur[1] + cur[3] = nx[1] /\ cur[2] + cur[3] = nx[2]
            THEN Collapse(blocks, n + 1, <<cur[1], cur[2], cur[3] + nx[3]>>)
            ELSE (IF cur[3] > 0 THEN <<cur>> ELSE <<>>)
                 \o Collapse(blocks, n + 1, nx)

\* get_matching_blocks(): the collapsed blocks and the sentinel
get_matching_blocks(a, b) ==
    Collapse(MatchBlocks(a, b, 0, Len(a), 0, Len(b)), 1, <<0, 0, 0>>)
        \o <<<<Len(a), Len(b), 0>>>>

RECURSIVE OpcodesFrom(_, _, _, _)
\* The loop of get_opcodes over the matching blocks; an opcode is
\* <<tag, i1, i2, j1, j2>>.
OpcodesFrom(blocks, n, i, j) ==
    IF n > Len(blocks) THEN <<>>
    ELSE LET ai == blocks[n][1]
             bj == blocks[n][2]
             size == blocks[n][3]
             tag == IF i < ai /\ j < bj THEN "replace"
                    ELSE IF i < ai THEN "delete"
                    ELSE IF j < bj THEN "insert"
                    ELSE ""
         IN (IF tag # "" THEN <<<<tag, i, ai, j, bj>>>> ELSE <<>>)
            \o (IF size > 0
                THEN <<<<"equal", ai, ai + size, bj, bj + size>>>> ELSE <<>>)
            \o OpcodesFrom(blocks, n + 1, ai + size, bj + size)

get_opcodes(a, b) == OpcodesFrom(get_matching_blocks(a, b), 1, 0, 0)

(***************************************************************************)
(* find_bad_words.                                                         *)
(***************************************************************************)
\* The stopword set of find_bad_words
simple_words ==
    { <<"a">>, <<"a", "n">>, <<"t", "h", "e">>, <<"a", "n", "d">>,
      <<"o", "r">>, <<"i", "n">>, <<"o", "n">>, <<"a", "t">>, <<"t", "o">>,
      <<"o", "f">>, <<"i", "s">>, <<"a", "r", "e">>, <<"w", "a", "s">>,
      <<"w", "e", "r", "e">> }

RECURSIVE FlagRunWithinOverlap(_, _, _, _)
\* The loop body that pairs the words of a "replace" run and leaves alone
\* the reference words beyond the recognized run
FlagRunWithinOverlap(ow, rw, op, i) ==
    IF i >= op[3] THEN <<>>
    ELSE (IF op[1] = "replace"
          THEN IF i - op[2] < op[5] - op[4]
                  /\ ow[i + 1] # rw[op[4] + (i - op[2]) + 1]
               THEN <<i>> ELSE <<>>
          ELSE IF op[1] = "delete" THEN <<i>>
          ELSE <<>>)
         \o FlagRunWithinOverlap(ow, rw, op, i + 1)

RECURSIVE FlagRun(_, _, _, _)
\* The body of the opcode loop for one opcode: the reference indices i of
\* i1..i2-1 whose word is appended to bad_words, in the order of the loop.
FlagRun(ow, rw, op, i) ==
    LET tag == op[1]
        i1 == op[2]
        i2 == op[3]
        j1 == op[4]
        j2 == op[5]
    IN IF i >= i2 THEN <<>>
       ELSE (IF tag = "replace"
             THEN IF i - i1 < j2 - j1
                  THEN IF ow[i + 1] # rw[j1 + (i - i1) + 1]
                       THEN <<i>> ELSE <<>>
                  ELSE <<i>>
             ELSE IF tag = "delete" THEN <<i>>
             ELSE <<>>)
            \o FlagRun(ow, rw, op, i + 1)

RECURSIVE FlagOpcodes(_, _, _, _)
FlagOpcodes(ow, rw, ops, n) ==
    IF n > Len(ops) THEN <<>>
    ELSE FlagRun(ow, rw, ops[n], ops[n][2])
         \o FlagOpcodes(ow, rw, ops, n + 1)

\* The variant with one loop for the "delete" runs and then one for the
\* "replace" runs
BadIndicesDeletesFirst(ow, rw) ==
    LET ops == get_opcodes(ow, rw)
    IN FlagOpcodes(ow, rw, SelectSeq(ops, LAMBDA op : op[1] = "delete"), 1)
       \o FlagOpcodes(ow, rw, SelectSeq(ops, LAMBDA op : op[1] = "replace"), 1)

\* The reference indices (0-based) whose words the opcode loop appends to
\* bad_words, in the order it appends them.
BadIndices(ow, rw) == FlagOpcodes(ow, rw, get_opcodes(ow, rw), 1)

\* bad_words before the filter: the words at the flagged indices
BadWordsAt(ow, idx) == [n \in 1..Len(idx) |-> ow[idx[n] + 1]]

\* The filter that lets a word through twice
FilterWordsNoSeen(bad_words, n, seen) ==
    SelectSeq(bad_words, LAMBDA w : ~(w \in simple_words \/ Len(w) <= 2))

RECURSIVE FilterWordsShort1(_, _, _)
\* The filter that drops only the words of one character
FilterWordsShort1(bad_words, n, seen) ==
    IF n > Len(bad_words) THEN <<>>
    ELSE LET w == bad_words[n]
         IN IF w \in simple_words \/ Len(w) < 2
            THEN FilterWordsShort1(bad_words, n + 1, seen)
            ELSE IF w \in seen THEN FilterWordsShort1(bad_words, n + 1, seen)
            ELSE <<w>> \o FilterWordsShort1(bad_words, n + 1, seen \cup {w})

RECURSIVE FilterWordsRec(_, _, _)
FilterWordsRec(bad_words, n, seen) ==
    IF n > Len(bad_words) THEN <<>>
    ELSE LET w == bad_words[n]
         IN IF w \in simple_words \/ Len(w) <= 2
            THEN FilterWordsRec(bad_words, n + 1, seen)
            ELSE IF w \in seen THEN FilterWordsRec(bad_words, n + 1, seen)
            ELSE <<w>> \o FilterWordsRec(bad_words, n + 1, seen \cup {w})

\* The second loop of find_bad_words: drop the stopwords and the words of
\* one or two characters, keep the first occurrence of each other word.
\* n is the 1-based position of the next word, seen the set "seen".
FilterWords(bad_words, n, seen) == FilterWordsRec(bad_words, n, seen)

find_bad_words(ref_text, rec_text) ==
    LET ow == _clean_text_words(ref_text)
        rw == _clean_text_words(rec_text)
    IN FilterWords(BadWordsAt(ow, BadIndices(ow, rw)), 1, {})

(***************************************************************************)
(* Clip download: CorrectionClipDownloadAPIView.get.                       *)
(***************************************************************************)
NoResponse == [status |-> 0, error |-> "", body |-> ""]
InvalidFileName == [status |-> 400, error |-> "invalid file name", body |-> ""]
FileNotFound == [status |-> 404, error |-> "file not found", body |-> ""]
InternalError == [status |-> 500, error |-> "internal server error", body |-> ""]
FileResponse(content) == [status |-> 200, error |-> "", body |-> content]

\* ---- uuid.UUID(task_id) and str(parsed) ----
HexLower ==
    <<"0", "1", "2", "3", "4", "5", "6", "7", "8", "9",
      "a", "b", "c", "d", "e", "f">>
HexUpper ==
    <<"0", "1", "2", "3", "4", "5", "6", "7", "8", "9",
      "A", "B", "C", "D", "E", "F">>
HexChars == Range(HexLower) \cup Range(HexUpper)
\* The value of one hexadecimal digit
HexValue(c) ==
    CHOOSE v \in 0..15 : HexLower[v + 1] = c \/ HexUpper[v + 1] = c

IsPrefix(p, s) == Len(p) <= Len(s) /\ SubSeq(s, 1, Len(p)) = p

RECURSIVE RemoveAll(_, _)
\* s.replace(sub, '')
RemoveAll(s, sub) ==
    IF s = <<>> THEN <<>>
    ELSE IF IsPrefix(sub, s) THEN RemoveAll(SubSeq(s, Len(sub) + 1, Len(s)), sub)
    ELSE <<Head(s)>> \o RemoveAll(Tail(s), sub)

RECURSIVE StripChars(_, _)
\* s.strip(chars)
StripChars(s, chars) ==
    IF s = <<>> THEN <<>>
    ELSE IF s[1] \in chars THEN StripChars(Tail(s), chars)
    ELSE IF s[Len(s)] \in chars THEN StripChars(SubSeq(s, 1, Len(s) - 1), chars)
    ELSE s

\* The 32 hexadecimal digits uuid.UUID(hex) reads from its argument, or
\* <<>> when it raises ValueError. int(hex, 16) also reads a sign, a "0x"
\* prefix, spaces and underscores; a string with one of them is never the
\* string form of the UUID it parses to, and the model counts it unparsed.
UuidHexDigits(s) ==
    LET h1 == RemoveAll(RemoveAll(s, <<"u", "r", "n", ":">>),
                        <<"u", "u", "i", "d", ":">>)
        h2 == RemoveAll(StripChars(h1, {"{", "}"}), <<"-">>)
    IN IF Len(h2) = 32 /\ \A i \in 1..32 : h2[i] \in HexChars
       THEN h2 ELSE <<>>
\* uuid.UUID(task_id): the 128-bit value as its 32 digit values, or <<>>
UuidParse(s) ==
    LET h == UuidHexDigits(s)
    IN [i \in 1..Len(h) |-> HexValue(h[i])]
\* str(parsed): '%s-%s-%s-%s-%s' of the lowercase hexadecimal digits
UuidStr(u) ==
    LET hex == [i \in 1..32 |-> HexLower[u[i] + 1]]
    IN SubSeq(hex, 1, 8) \o <<"-">> \o SubSeq(hex, 9, 12) \o <<"-">>
       \o SubSeq(hex, 13, 16) \o <<"-">> \o SubSeq(hex, 17, 20) \o <<"-">>
       \o SubSeq(hex, 21, 32)

\* The gate that accepts every string uuid.UUID parses
TaskIdGateParseOnly(task_id) == UuidParse(task_id) # <<>>
\* Lines 247-252: task_id parses and str(parsed) == task_id
TaskIdGate(task_id) ==
    LET parsed == UuidParse(task_id)
    IN parsed # <<>> /\ UuidStr(parsed) = task_id

\* ---- _FILENAME_RE ----
\* The character class of _FILENAME_RE with the path separator added
FilenameClassWithSlash == LetterChars \cup DigitChars \cup {"_", ".", "-", "/"}
\* The character class [A-Za-z0-9_.\-] of _FILENAME_RE
FilenameClass == LetterChars \cup DigitChars \cup {"_", ".", "-"}
Mp3Suffix == <<".", "m", "p", "3">>
\* The pattern without its "$": a match of a prefix is enough
FilenameReMatchPrefix(filename) ==
    \E k \in 1..Len(filename) : \E e \in (k + 4)..Len(filename) :
        /\ \A i \in 1..k : filename[i] \in FilenameClass
        /\ SubSeq(filename, k + 1, e) = Mp3Suffix
\* _FILENAME_RE.fullmatch(filename): some split of the whole string into
\* one or more characters of the class and the literal ".mp3"
FilenameReFullmatch(filename) ==
    \E k \in 1..Len(filename) :
        /\ \A i \in 1..k : filename[i] \in FilenameClass
        /\ SubSeq(filename, k + 1, Len(filename)) = Mp3Suffix
\* Line 255: not filename or not _FILENAME_RE.fullmatch(filename)
FilenameGate(filename) == filename # <<>> /\ FilenameReFullmatch(filename)

\* ---- paths ----
\* A path is the sequence of its components below the root "/".
MEDIA_ROOT == << <<"m", "e", "d", "i", "a">> >>
_tasks_root == MEDIA_ROOT \o << <<"a", "u", "d", "i", "o", "_", "t", "a", "s", "k", "s">> >>
CorrectionAudio ==
    <<"c", "o", "r", "r", "e", "c", "t", "i", "o", "n", "_", "a", "u", "d", "i", "o">>

RECURSIVE SplitOn(_, _, _)
\* s.split(sep) for a one-character separator
SplitOn(s, sep, cur) ==
    LET seps == {i \in 1..Len(s) : s[i] = sep}
    IN IF seps = {} THEN <<cur \o s>>
       ELSE LET first == CHOOSE i \in seps : \A j \in seps : i <= j
            IN <<cur \o SubSeq(s, 1, first - 1)>>
                 \o SplitOn(SubSeq(s, first + 1, Len(s)), sep, <<>>)
\* The components pathlib reads from a path string: empty components and
\* "." are dropped, ".." is kept.
PathParts(name) ==
    SelectSeq(SplitOn(name, "/", <<>>), LAMBDA c : c # <<>> /\ c # <<".">>)
\* base / name: an absolute name replaces the base
JoinPath(base, name) ==
    IF name # <<>> /\ name[1] = "/" THEN PathParts(name)
    ELSE base \o PathParts(name)

IsLink(f, path) == path \in DOMAIN f /\ f[path].kind = "link"
RECURSIVE ResolveFrom(_, _, _, _)
\* Path.resolve() (strict=False): follow the symbolic links component by
\* component, step over "..", and keep what does not exist as it is.
ResolveFrom(f, cur, rest, hops) ==
    IF rest = <<>> THEN cur
    ELSE IF Head(rest) = <<".", ".">>
         THEN ResolveFrom(f, IF cur = <<>> THEN <<>> ELSE SubSeq(cur, 1, Len(cur) - 1),
                          Tail(rest), hops)
    ELSE LET cand == Append(cur, Head(rest))
         IN IF IsLink(f, cand) /\ hops > 0
            THEN ResolveFrom(f, <<>>, f[cand].target \o Tail(rest), hops - 1)
            ELSE ResolveFrom(f, cand, Tail(rest), hops)
Resolve(f, path) == ResolveFrom(f, <<>>, path, MaxLinkHops)

\* The longest name of a directory entry (NAME_MAX of the platform): os.stat
\* on a path with a longer component fails with ENAMETOOLONG
NAME_MAX == 255
NameTooLong(path) == \E i \in 1..Len(path) : Len(path[i]) > NAME_MAX

\* The check that lets every path through
RelativeToAnything(file_path, base_dir) == TRUE
\* file_path.relative_to(base_dir) does not raise
RelativeTo(file_path, base_dir) == IsPrefix(base_dir, file_path)

\* The mismatch detector is not called
DiffIdle ==
    /\ reference_text = <<>>
    /\ recognized_text = <<>>
    /\ orig_words = <<>>
    /\ rec_words = <<>>
    /\ flagged = <<>>
    /\ results = <<>>

\* ---- the handler ----
DlIdle ==
    /\ fs = <<>>
    /\ dl_pc = "off"
    /\ dl_task_id = <<>>
    /\ dl_filename = <<>>
    /\ dl_base_dir = <<>>
    /\ dl_file_path = <<>>
    /\ dl_passed = {}
    /\ dl_fs_ops = <<>>
    /\ dl_response = NoResponse

\* A GET request arrives
DlRequest(task_id, filename) ==
    /\ dl_pc = "idle"
    /\ dl_pc' = "task_id"
    /\ dl_task_id' = task_id
    /\ dl_filename' = filename
    /\ dl_base_dir' = <<>>
    /\ dl_file_path' = <<>>
    /\ dl_passed' = {}
    /\ dl_fs_ops' = <<>>
    /\ dl_response' = NoResponse
    /\ UNCHANGED fs

\* Lines 247-252
DlCheckTaskId ==
    /\ dl_pc = "task_id"
    /\ IF TaskIdGate(dl_task_id)
       THEN /\ dl_pc' = "filename"
            /\ dl_passed' = dl_passed \cup {"task_id"}
            /\ UNCHANGED dl_response
       ELSE /\ dl_pc' = "done"
            /\ dl_response' = InvalidFileName
            /\ UNCHANGED dl_passed
    /\ UNCHANGED <<fs, dl_task_id, dl_filename, dl_base_dir, dl_file_path, dl_fs_ops>>

\* Lines 255-256
DlCheckFilename ==
    /\ dl_pc = "filename"
    /\ IF FilenameGate(dl_filename)
       THEN /\ dl_pc' = "resolve"
            /\ dl_passed' = dl_passed \cup {"filename"}
            /\ UNCHANGED dl_response
       ELSE /\ dl_pc' = "done"
            /\ dl_response' = InvalidFileName
            /\ UNCHANGED dl_passed
    /\ UNCHANGED <<fs, dl_task_id, dl_filename, dl_base_dir, dl_file_path, dl_fs_ops>>

\* Lines 259-266
DlResolve ==
    /\ dl_pc = "resolve"
    /\ dl_base_dir' = Resolve(fs, _tasks_root \o <<dl_task_id, CorrectionAudio>>)
    /\ dl_file_path' = Resolve(fs, JoinPath(dl_base_dir', dl_filename))
    /\ dl_fs_ops' = dl_fs_ops \o <<"resolve", "resolve">>
    /\ IF RelativeTo(dl_file_path', dl_base_dir')
       THEN /\ dl_pc' = "stat"
            /\ dl_passed' = dl_passed \cup {"contained"}
            /\ UNCHANGED dl_response
       ELSE /\ dl_pc' = "done"
            /\ dl_response' = InvalidFileName
            /\ UNCHANGED dl_passed
    /\ UNCHANGED <<fs, dl_task_id, dl_filename>>

\* Lines 268-269
DlStat ==
    /\ dl_pc = "stat"
    /\ dl_fs_ops' = dl_fs_ops \o <<"exists", "is_file">>
    /\ IF dl_file_path \in DOMAIN fs /\ fs[dl_file_path].kind = "file"
       THEN /\ dl_pc' = "open"
            /\ UNCHANGED dl_response
       ELSE /\ dl_pc' = "done"
            /\ dl_response' = FileNotFound
    /\ UNCHANGED <<fs, dl_task_id, dl_filename, dl_base_dir, dl_file_path, dl_passed>>

\* Lines 268 and 275-279: file_path.exists() raises.  Path.exists() answers
\* False only for ENOENT, ENOTDIR, EBADF and ELOOP where it is built on
\* stat, and lets ENAMETOOLONG through; where it is built on os.path.exists
\* it answers False, which is DlStat.
DlStatFails ==
    /\ dl_pc = "stat"
    /\ NameTooLong(dl_file_path)
    /\ dl_fs_ops' = Append(dl_fs_ops, "exists")
    /\ dl_response' = InternalError
    /\ dl_pc' = "done"
    /\ UNCHANGED <<fs, dl_task_id, dl_filename, dl_base_dir, dl_file_path, dl_passed>>

\* Lines 271-274: the file is opened and streamed
DlOpen ==
    /\ dl_pc = "open"
    /\ dl_fs_ops' = Append(dl_fs_ops, "open")
    /\ dl_response' = FileResponse(fs[dl_file_path].content)
    /\ dl_pc' = "done"
    /\ UNCHANGED <<fs, dl_task_id, dl_filename, dl_base_dir, dl_file_path, dl_passed>>

\* Lines 275-279: open() raises (the file cannot be read)
DlOpenFails ==
    /\ dl_pc = "open"
    /\ dl_fs_ops' = Append(dl_fs_ops, "open")
    /\ dl_response' = InternalError
    /\ dl_pc' = "done"
    /\ UNCHANGED <<fs, dl_task_id, dl_filename, dl_base_dir, dl_file_path, dl_passed>>

\* The response is sent and the locals of the call are gone; the view
\* waits for the next request
DlReturn ==
    /\ dl_pc = "done"
    /\ dl_pc' = "idle"
    /\ dl_task_id' = <<>>
    /\ dl_filename' = <<>>
    /\ dl_base_dir' = <<>>
    /\ dl_file_path' = <<>>
    /\ dl_passed' = {}
    /\ dl_fs_ops' = <<>>
    /\ dl_response' = NoResponse
    /\ UNCHANGED fs

(***************************************************************************)
(* Processing: ProcessAudioAPIView.post and the services it calls.         *)
(* An upload is the sequence of its chunks, a chunk a sequence of bytes;   *)
(* a byte is written as a one-character string.  The WAV codec and the     *)
(* recognizer are outside of the repository: the first byte of an upload   *)
(* stands for its header and each later byte for one spoken word.          *)
(***************************************************************************)
Reqs == 1..MaxRequests
\* The value None of Python
None == <<"None">>

RECURSIVE Flatten(_)
\* The bytes of an upload: its chunks one after the other
Flatten(chunks) ==
    IF chunks = <<>> THEN <<>> ELSE Head(chunks) \o Flatten(Tail(chunks))

\* str.strip()
Strip(text) == StripChars(text, SpaceChars)

RECURSIVE IntToStr(_)
\* str(i) for i >= 0
IntToStr(i) ==
    IF i < 10 THEN <<HexLower[i + 1]>>
    ELSE IntToStr(i \div 10) \o <<HexLower[(i % 10) + 1]>>

\* _parse_bool raises ValueError
ParseBoolRaises(value) ==
    /\ value # None
    /\ Lower(Strip(value)) \notin
         { <<"1">>, <<"t", "r", "u", "e">>, <<"y", "e", "s">>, <<"y">>,
           <<"o", "n">>, <<"0">>, <<"f", "a", "l", "s", "e">>, <<"n", "o">>,
           <<"n">>, <<"o", "f", "f">>, <<>> }
\* The parser whose missing flag counts as set
ParseBoolMissingIsTrue(value, default) ==
    IF value = None THEN TRUE
    ELSE Lower(Strip(value)) \in
           { <<"1">>, <<"t", "r", "u", "e">>, <<"y", "e", "s">>, <<"y">>,
             <<"o", "n">> }
\* _parse_bool(value, default)
_parse_bool(value, default) ==
    IF value = None THEN default
    ELSE Lower(Strip(value)) \in
           { <<"1">>, <<"t", "r", "u", "e">>, <<"y", "e", "s">>, <<"y">>,
             <<"o", "n">> }

\* ---- wave.open and validate_wav_16k_mono ----
\* A file at wav_path: a WAV container with its header fields, a file that
\* is no WAV container (wave.open raises wave.Error), or a file that cannot
\* be read at all (wave.open raises another exception, EOFError or OSError)
WavFile(channels, framerate, sampwidth) ==
    [kind |-> "wav", channels |-> channels, framerate |-> framerate,
     sampwidth |-> sampwidth]
MalformedFile == [kind |-> "malformed", channels |-> 0, framerate |-> 0, sampwidth |-> 0]
UnreadableFile == [kind |-> "unreadable", channels |-> 0, framerate |-> 0, sampwidth |-> 0]
\* The file that the bytes of an upload make: the first byte stands for
\* the header
WavHeader(audio) ==
    IF audio # <<>> /\ audio[1] = "M" THEN WavFile(1, 16000, 2)
    ELSE IF audio # <<>> /\ audio[1] = "S" THEN WavFile(2, 16000, 2)
    ELSE IF audio = <<>> THEN UnreadableFile
    ELSE MalformedFile
\* The validator that takes every sample width
ValidateWavAnyWidth(wav) ==
    IF wav.kind = "malformed" THEN <<FALSE, <<"Invalid WAV file: ">> >>
    ELSE IF wav.kind # "wav" THEN <<FALSE, <<"Could not read WAV file: ">> >>
    ELSE IF wav.channels # 1
         THEN <<FALSE, <<"Audio must be mono (1 channel). Got channels=">>
                          \o IntToStr(wav.channels)>>
    ELSE IF wav.framerate # 16000
         THEN <<FALSE, <<"Audio must be 16000 Hz sample rate. Got framerate=">>
                          \o IntToStr(wav.framerate)>>
    ELSE <<TRUE, <<"OK">> >>
\* validate_wav_16k_mono(wav_path): <<ok, info_or_err>>, the message being
\* its fixed text followed by the digits of the value it quotes
validate_wav_16k_mono(wav) ==
    IF wav.kind = "malformed" THEN <<FALSE, <<"Invalid WAV file: ">> >>
    ELSE IF wav.kind # "wav" THEN <<FALSE, <<"Could not read WAV file: ">> >>
    ELSE IF wav.channels # 1
         THEN <<FALSE, <<"Audio must be mono (1 channel). Got channels=">>
                          \o IntToStr(wav.channels)>>
    ELSE IF wav.framerate # 16000
         THEN <<FALSE, <<"Audio must be 16000 Hz sample rate. Got framerate=">>
                          \o IntToStr(wav.framerate)>>
    ELSE IF wav.sampwidth \notin {2, 3, 4}
         THEN <<FALSE, <<"Unexpected sample width (bytes per sample): ">>
                          \o IntToStr(wav.sampwidth)>>
    ELSE <<TRUE, <<"OK">> >>
\* The validator is not called
WavIdle ==
    /\ wav_file = MalformedFile
    /\ wav_results = <<>>

\* ---- recognize_speech_vosk ----
SpokenWord(b) ==
    IF b = "c" THEN << <<"c", "a", "t">> >>
    ELSE IF b = "d" THEN << <<"d", "o", "g">> >>
    ELSE IF b = "f" THEN << <<"f", "o", "x">> >>
    ELSE <<>>
RECURSIVE SpokenWords(_)
SpokenWords(frames) ==
    IF frames = <<>> THEN <<>>
    ELSE SpokenWord(Head(frames)) \o SpokenWords(Tail(frames))
\* recognize_speech_vosk(audio_path, model_path): the transcript, stripped
recognize_speech_vosk(audio) ==
    Strip(Join(SpokenWords(Tail(audio)), <<" ">>))

\* ---- the cache key and the task id ----
\* text.encode('utf-8', errors='ignore'): the characters that cannot be
\* encoded (lone surrogates) are dropped
Unencodable == {"\\ud800"}
Utf8Encode(text) == SelectSeq(text, LAMBDA c : c \notin Unencodable)
\* hashlib.sha256 over the bytes fed to it: a digest that tells any two
\* byte strings apart
Sha256Hex(bytes) == <<"sha256:">> \o bytes
\* str(uuid.uuid5(uuid.NAMESPACE_URL, name)): one identifier for each name
Uuid5(name) == <<"uuid5:">> \o name

\* ---- the analysis record ----
EmptyDict == [has |-> FALSE, recognizedText |-> <<>>, mispronouncedWords |-> <<>>]
NoFile == [exists |-> FALSE, doc |-> <<>>]
\* json.dumps(analysis, ensure_ascii=False, indent=2): the tokens of the document
JsonDumps(analysis) ==
    <<"{", "recognizedText", analysis.recognizedText,
      "mispronouncedWords", analysis.mispronouncedWords, "}">>
\* json.loads raises on the document
JsonLoadsRaises(doc) == Len(doc) # 6
\* json.loads(doc) of a complete document
JsonLoads(doc) ==
    [has |-> TRUE, recognizedText |-> doc[3], mispronouncedWords |-> doc[5]]
\* What write_text leaves when it fails after opening the file
PartialDocs(doc) == {SubSeq(doc, 1, Len(doc) - 1)}

\* ---- _safe_filename_part and generate_correction_clips_yandex ----
RECURSIVE CollapseUnderscores(_)
\* re.sub(r"_+", "_", part)
CollapseUnderscores(s) ==
    IF Len(s) < 2 THEN s
    ELSE IF s[1] = "_" /\ s[2] = "_" THEN CollapseUnderscores(Tail(s))
    ELSE <<s[1]>> \o CollapseUnderscores(Tail(s))
\* The component that is the word itself
SafeFilenamePartRaw(word) == word
_safe_filename_part(word) ==
    LET sub == [i \in 1..Len(word) |->
                   IF word[i] \in FilenameClass THEN word[i] ELSE "_"]
        part == StripChars(CollapseUnderscores(sub), {"_"})
        named == IF part = <<>> THEN <<"w", "o", "r", "d">> ELSE part
    IN Slice(named, 0, 40)
ClipFilename(i, word) ==
    IntToStr(i) \o <<"_">> \o _safe_filename_part(word) \o Mp3Suffix

RECURSIVE ClipLoopAborts(_, _, _, _)
\* The loop that stops at the first word whose synthesis fails
ClipLoopAborts(words, i, clips, oks) ==
    IF i > Len(words)
    THEN [pairs |-> <<>>, clips |-> clips, calls |-> 0, attempts |-> <<>>]
    ELSE LET filename == ClipFilename(i, words[i])
             exists == filename \in DOMAIN clips
             ok == i \in oks
             written == IF ~exists /\ ok
                        THEN [f \in DOMAIN clips \cup {filename} |->
                                 IF f = filename THEN <<"mp3 of", words[i]>>
                                 ELSE clips[f]]
                        ELSE clips
             rest == IF exists \/ ok
                     THEN ClipLoopAborts(words, i + 1, written, oks)
                     ELSE [pairs |-> <<>>, clips |-> clips, calls |-> 0,
                           attempts |-> <<>>]
         IN [pairs |-> (IF exists \/ ok
                        THEN << <<words[i], filename>> >> ELSE <<>>)
                       \o rest.pairs,
             clips |-> rest.clips,
             calls |-> (IF exists THEN 0 ELSE 1) + rest.calls,
             attempts |-> (IF exists THEN <<>> ELSE <<i>>) \o rest.attempts]

RECURSIVE ClipLoop(_, _, _, _)
\* The loop of generate_correction_clips_yandex from word i (1-based) on:
\* clips is the content of output_dir, oks the positions at which the
\* provider answers 200.  The result is the list of pairs, the directory,
\* the number of calls of the provider and the positions they were made for.
ClipLoop(words, i, clips, oks) ==
    IF i > Len(words)
    THEN [pairs |-> <<>>, clips |-> clips, calls |-> 0, attempts |-> <<>>]
    ELSE LET filename == ClipFilename(i, words[i])
             exists == filename \in DOMAIN clips
             ok == i \in oks
             written == IF ~exists /\ ok
                        THEN [f \in DOMAIN clips \cup {filename} |->
                                 IF f = filename THEN <<"mp3 of", words[i]>>
                                 ELSE clips[f]]
                        ELSE clips
             rest == ClipLoop(words, i + 1, written, oks)
         IN [pairs |-> (IF exists \/ ok
                        THEN << <<words[i], filename>> >> ELSE <<>>)
                       \o rest.pairs,
             clips |-> rest.clips,
             calls |-> (IF exists THEN 0 ELSE 1) + rest.calls,
             attempts |-> (IF exists THEN <<>> ELSE <<i>>) \o rest.attempts]
\* The generator that works on the whole list
GenerateClipsUntruncated(words, clips, max_clips, oks) ==
    ClipLoop(words, 1, clips, oks)
generate_correction_clips_yandex(words, clips, max_clips, oks) ==
    ClipLoop(IF max_clips > 0 THEN Slice(words, 0, max_clips) ELSE words,
             1, clips, oks)

\* int(getattr(settings, 'PRONUNCIATION_MAX_CLIPS', 25) or 25)
MaxClipsSetting(value) == IF value = 0 THEN 25 ELSE value

\* The clip generator is not called
ClipIdle ==
    /\ clip_words = <<>>
    /\ clip_setting = 0
    /\ clip_dir = <<>>
    /\ clip_results = <<>>
    /\ clip_runs = <<>>

\* _get_vosk_model is not called
CacheIdle ==
    /\ vosk_installed = TRUE
    /\ model_cache = <<>>
    /\ model_loaded = <<>>
    /\ model_threads = <<>>
    /\ model_returned = <<>>

\* ---- the handler ----
NoRequest ==
    [pc |-> "idle", text |-> <<>>, audio_name |-> <<>>, chunks |-> <<>>,
     enable_tts_field |-> None, enable_tts |-> FALSE,
     tmp_id |-> 0, cache_key |-> <<>>, task_id |-> <<>>, found |-> "",
     analysis |-> EmptyDict, persisted |-> "", recognizer_calls |-> 0,
     tts_calls |-> 0, response |-> [status |-> 0]]
ErrorResponse(code, message) == [status |-> code, error |-> message]
ProcIdle ==
    /\ settings = <<>>
    /\ tasks = <<>>
    /\ tmp_dirs = <<>>
    /\ uuid4_count = 0
    /\ reqs = <<>>

\* The file of a directory that is a function from names to contents
WithEntry(dir, name, content) ==
    [n \in DOMAIN dir \cup {name} |-> IF n = name THEN content ELSE dir[n]]
Without(dir, names) == [n \in DOMAIN dir \ names |-> dir[n]]

\* The key as the settings give it
ApiKeyUnstripped == settings.YANDEX_API_KEY
ApiKey == StripChars(settings.YANDEX_API_KEY, SpaceChars)
FolderId == StripChars(settings.YANDEX_FOLDER_ID, SpaceChars)

\* An uploaded file is its name and its chunks
Upload(name, chunks) == [name |-> name, chunks |-> chunks]
\* request.FILES.get('audio') is None
NoUpload == Upload(<<>>, <<>>)

\* What stays known of a request once the locals and the response of its
\* call are gone: what was submitted, the temp directory and the task
Gone(req) ==
    [NoRequest EXCEPT !.pc = "gone", !.text = req.text, !.chunks = req.chunks,
                      !.enable_tts = req.enable_tts, !.tmp_id = req.tmp_id,
                      !.task_id = req.task_id]
\* The calls before the last one are forgotten when request r arrives
Forget(rs, r) ==
    [q \in Reqs |-> IF q < r - 1 THEN Gone(rs[q]) ELSE rs[q]]

\* Lines 82-112: the fields are read and checked, the temp directory is made
PStart(r, text_field, audio_file, enable_tts_field) ==
    /\ reqs[r].pc = "idle"
    /\ LET text == Strip(IF text_field = None THEN <<>> ELSE text_field)
           enable_tts == _parse_bool(enable_tts_field, FALSE)
           \* the request as far as the handler has read it
           read_text == [reqs[r] EXCEPT !.text = text]
           read_audio == [read_text EXCEPT !.audio_name = audio_file.name]
           read_flag == [read_audio EXCEPT !.enable_tts_field = enable_tts_field,
                                           !.enable_tts = enable_tts]
           reject(read, message) ==
               /\ reqs' = Forget([reqs EXCEPT ![r] =
                              [read EXCEPT !.pc = "done",
                                           !.response = ErrorResponse(400, message)]], r)
               /\ UNCHANGED <<tmp_dirs, uuid4_count>>
       IN IF text = <<>> THEN reject(read_text, "text is required")
          ELSE IF audio_file = NoUpload
               THEN reject(read_text, "audio is required")
          ELSE IF ParseBoolRaises(enable_tts_field)
               THEN reject(read_audio, "enable_tts must be a boolean")
          ELSE IF enable_tts /\ (ApiKey = <<>> \/ FolderId = <<>>)
               THEN reject(read_flag,
                           "YANDEX_API_KEY/YANDEX_FOLDER_ID not configured")
          ELSE /\ uuid4_count' = uuid4_count + 1
               /\ tmp_dirs' = WithEntry(tmp_dirs, uuid4_count', {})
               /\ reqs' = Forget([reqs EXCEPT ![r] =
                              [read_flag EXCEPT !.pc = "upload",
                                                !.chunks = audio_file.chunks,
                                                !.tmp_id = uuid4_count']], r)
    /\ UNCHANGED <<settings, tasks>>

\* The key that depends on the temp directory of the request
CacheKeyWithTmpId(r) ==
    Sha256Hex(Flatten(reqs[r].chunks) \o Utf8Encode(reqs[r].text)
              \o IntToStr(reqs[r].tmp_id))
\* Lines 115-123: the digest of the chunks, in order, and of the text
CacheKey(r) ==
    Sha256Hex(Flatten(reqs[r].chunks) \o Utf8Encode(reqs[r].text))

\* Lines 117-132: the upload is written to the temp file and hashed, and
\* the container is validated
PUpload(r) ==
    /\ reqs[r].pc = "upload"
    /\ tmp_dirs' = [tmp_dirs EXCEPT ![reqs[r].tmp_id] = {"input.wav"}]
    /\ IF validate_wav_16k_mono(WavHeader(Flatten(reqs[r].chunks)))[1]
       THEN reqs' = [reqs EXCEPT ![r].pc = "lookup", ![r].cache_key = CacheKey(r)]
       ELSE reqs' = [reqs EXCEPT ![r].pc = "cleanup", ![r].cache_key = CacheKey(r),
                         ![r].response =
                             ErrorResponse(400, "audio must be a valid WAV (mono, 16000 Hz)")]
    /\ UNCHANGED <<settings, tasks, uuid4_count>>

\* Lines 135-147: the task directory is made and the record looked up
PLookup(r) ==
    /\ reqs[r].pc = "lookup"
    /\ LET task_id == Uuid5(reqs[r].cache_key)
           task_dir == IF task_id \in DOMAIN tasks THEN tasks[task_id]
                       ELSE [analysis |-> NoFile, clips |-> <<>>]
       IN /\ tasks' = WithEntry(tasks, task_id, task_dir)
          /\ IF task_dir.analysis.exists
             THEN IF JsonLoadsRaises(task_dir.analysis.doc)
                  THEN reqs' = [reqs EXCEPT ![r].pc = "tts", ![r].task_id = task_id,
                                    ![r].found = "corrupt", ![r].analysis = EmptyDict]
                  ELSE reqs' = [reqs EXCEPT ![r].pc = "tts", ![r].task_id = task_id,
                                    ![r].found = "intact",
                                    ![r].analysis = JsonLoads(task_dir.analysis.doc)]
             ELSE reqs' = [reqs EXCEPT ![r].pc = "analyze", ![r].task_id = task_id,
                               ![r].found = "absent"]
    /\ UNCHANGED <<settings, tmp_dirs, uuid4_count>>

\* The pipeline that goes on with an empty transcript
AnalyzeNeverRaises(recognized) == FALSE
\* analyze_pronunciation raises RuntimeError: nothing was recognized
AnalyzeRaises(recognized) == recognized = <<>>

\* Lines 149-158 and analyze_pronunciation: recognition and comparison
PAnalyze(r) ==
    /\ reqs[r].pc = "analyze"
    /\ LET recognized == recognize_speech_vosk(Flatten(reqs[r].chunks))
       IN IF AnalyzeRaises(recognized)
          THEN reqs' = [reqs EXCEPT ![r].pc = "cleanup",
                            ![r].recognizer_calls = @ + 1,
                            ![r].response =
                                ErrorResponse(500, "internal server error while processing audio")]
          ELSE reqs' = [reqs EXCEPT ![r].pc = "persist",
                            ![r].recognizer_calls = @ + 1,
                            ![r].analysis =
                                [has |-> TRUE, recognizedText |-> recognized,
                                 mispronouncedWords |->
                                     find_bad_words(reqs[r].text, recognized)]]
    /\ UNCHANGED <<settings, tasks, tmp_dirs, uuid4_count>>

\* The write that loses the recognized text
PersistedDocWithoutText(analysis) ==
    JsonDumps([analysis EXCEPT !.recognizedText = <<>>])
\* The document lines 162-165 write
PersistedDoc(analysis) == JsonDumps(analysis)

\* Lines 161-167: the record is written; a failure is logged and swallowed
PPersist(r, outcome) ==
    /\ reqs[r].pc = "persist"
    /\ LET t == reqs[r].task_id
           doc == PersistedDoc(reqs[r].analysis)
       IN IF t \notin DOMAIN tasks \/ outcome = "open failed"
          THEN UNCHANGED tasks
          ELSE IF outcome = "ok"
               THEN tasks' = [tasks EXCEPT ![t].analysis = [exists |-> TRUE, doc |-> doc]]
          ELSE \E part \in PartialDocs(doc) :
                  tasks' = [tasks EXCEPT ![t].analysis = [exists |-> TRUE, doc |-> part]]
    /\ reqs' = [reqs EXCEPT ![r].pc = "tts", ![r].persisted = outcome]
    /\ UNCHANGED <<settings, tmp_dirs, uuid4_count>>

\* Lines 175-222: the optional clips and the response
PRespond(r, oks) ==
    /\ reqs[r].pc = "tts"
    /\ LET t == reqs[r].task_id
           recognized == reqs[r].analysis.recognizedText
           mispronounced == reqs[r].analysis.mispronouncedWords
           max_clips == MaxClipsSetting(settings.PRONUNCIATION_MAX_CLIPS)
           gen == generate_correction_clips_yandex(
                      mispronounced,
                      IF t \in DOMAIN tasks THEN tasks[t].clips ELSE <<>>,
                      max_clips, oks)
           ok(pairs) ==
               [status |-> 200, taskId |-> t, recognizedText |-> recognized,
                mispronouncedWords |-> mispronounced,
                correctionClips |-> pairs]
       IN IF reqs[r].enable_tts
          THEN /\ oks \subseteq 1..Len(mispronounced)
               /\ tasks' = WithEntry(tasks, t,
                              [analysis |-> IF t \in DOMAIN tasks
                                            THEN tasks[t].analysis ELSE NoFile,
                               clips |-> gen.clips])
               /\ reqs' = [reqs EXCEPT ![r].pc = "cleanup",
                                       ![r].tts_calls = gen.calls,
                                       ![r].response = ok(gen.pairs)]
          ELSE /\ oks = {}
               /\ reqs' = [reqs EXCEPT ![r].pc = "cleanup", ![r].response = ok(<<>>)]
               /\ UNCHANGED tasks
    /\ UNCHANGED <<settings, tmp_dirs, uuid4_count>>

\* The cleanup that removes the temp file and leaves its directory
TmpFileOnlyRemoved(id) ==
    IF id \in DOMAIN tmp_dirs
    THEN [tmp_dirs EXCEPT ![id] = @ \ {"input.wav"}]
    ELSE tmp_dirs
\* Lines 224-235: input.wav is unlinked when it exists, and the temp
\* directory is removed when it exists and is empty (rmdir raises on a
\* directory that is not empty, and the exception is passed over)
TmpRemoved(id) ==
    LET unlinked == IF id \in DOMAIN tmp_dirs
                    THEN [tmp_dirs EXCEPT ![id] = @ \ {"input.wav"}]
                    ELSE tmp_dirs
    IN IF id \in DOMAIN unlinked /\ unlinked[id] = {}
       THEN Without(unlinked, {id})
       ELSE unlinked

\* Lines 223-235: the finally block of the request
PCleanup(r) ==
    /\ reqs[r].pc = "cleanup"
    /\ tmp_dirs' = TmpRemoved(reqs[r].tmp_id)
    /\ reqs' = [reqs EXCEPT ![r].pc = "done"]
    /\ UNCHANGED <<settings, tasks, uuid4_count>>

\* cleanup_audio: a task directory older than CLEANUP_DAYS is removed.  The
\* command is run between two requests.
CleanupAudio(t) ==
    /\ \A r \in Reqs : reqs[r].pc \in {"idle", "done", "gone"}
    /\ t \in DOMAIN tasks
    /\ tasks' = Without(tasks, {t})
    /\ UNCHANGED <<settings, tmp_dirs, uuid4_count, reqs>>

\* ---- the requests of the model ----
TextCatDog == <<"c", "a", "t", " ", "d", "o", "g">>
TextFox == <<" ", "F", "o", "x", ".">>
\* The first text without its first byte, which the first audio ends with
TextAtDog == <<"a", "t", " ", "d", "o", "g">>
TextFields == { TextCatDog, TextFox, TextAtDog }
WavName == <<"a", ".", "w", "a", "v">>
Mp3Name == <<"a", ".", "m", "p", "3">>
\* One word in one chunk, the same bytes in two chunks of a file that is
\* not named .wav, silence, and a stereo file
AudioCat == Upload(WavName, << <<"M", "c">> >>)
AudioFiles ==
    { AudioCat, Upload(Mp3Name, << <<"M">>, <<"c">> >>),
      Upload(WavName, << <<"M">> >>), Upload(WavName, << <<"S", "c">> >>) }
\* The text and audio fields of the requests: every audio with the first
\* text, the first audio with the other texts, and a field left out
Forms ==
    {<<TextCatDog, audio>> : audio \in AudioFiles}
        \cup { <<TextFox, AudioCat>>, <<TextAtDog, AudioCat>>,
               <<None, AudioCat>>, <<TextCatDog, NoUpload>> }
EnableTtsFields == { None, <<"t", "r", "u", "e">>, <<"m", "a", "y", "b", "e">> }
\* The requests: every form with every enable_tts field, the form of the
\* third text without the field only
Submissions ==
    {<<form[1], form[2], tts>> : form \in Forms, tts \in EnableTtsFields}
        \ {<<TextAtDog, AudioCat, tts>> : tts \in EnableTtsFields \ {None}}
\* The key and the folder id of the provider: both configured, the key
\* blank, the folder id missing
Credentials ==
    { << <<"k", "e", "y">>, <<"f">> >>, << <<" ">>, <<"f">> >>,
      << <<"k", "e", "y">>, <<>> >> }

Init ==
    /\ \E c \in Credentials :
         settings = [YANDEX_API_KEY |-> c[1], YANDEX_FOLDER_ID |-> c[2],
                     PRONUNCIATION_MAX_CLIPS |-> 25]
    /\ tasks = <<>>
    /\ tmp_dirs = <<>>
    /\ uuid4_count = 0
    /\ reqs = [r \in Reqs |-> NoRequest]
    /\ DiffIdle
    /\ DlIdle
    /\ WavIdle
    /\ ClipIdle
    /\ CacheIdle

\* The requests come one after the other
InTurn(r) ==
    /\ \A q \in Reqs \ {r} : reqs[q].pc \in {"idle", "done", "gone"}
    /\ r > 1 => reqs[r - 1].pc = "done"

Next ==
    \/ \E r \in Reqs, sub \in Submissions :
           InTurn(r) /\ PStart(r, sub[1], sub[2], sub[3]) /\ UNCHANGED <<diffVars, dlVars, wavVars, clipVars, cacheVars>>
    \/ \E r \in Reqs : PUpload(r) /\ UNCHANGED <<diffVars, dlVars, wavVars, clipVars, cacheVars>>
    \/ \E r \in Reqs : PLookup(r) /\ UNCHANGED <<diffVars, dlVars, wavVars, clipVars, cacheVars>>
    \/ \E r \in Reqs : PAnalyze(r) /\ UNCHANGED <<diffVars, dlVars, wavVars, clipVars, cacheVars>>
    \/ \E r \in Reqs, outcome \in {"ok", "open failed", "write failed"} :
           PPersist(r, outcome) /\ UNCHANGED <<diffVars, dlVars, wavVars, clipVars, cacheVars>>
    \/ \E r \in Reqs, oks \in SUBSET (1..2) :
           PRespond(r, oks) /\ UNCHANGED <<diffVars, dlVars, wavVars, clipVars, cacheVars>>
    \/ \E r \in Reqs : PCleanup(r) /\ UNCHANGED <<diffVars, dlVars, wavVars, clipVars, cacheVars>>
    \/ \E t \in DOMAIN tasks : CleanupAudio(t) /\ UNCHANGED <<diffVars, dlVars, wavVars, clipVars, cacheVars>>

Spec == Init /\ [][Next]_vars

(***************************************************************************)
(* Processing requests in parallel (specification SpecRace): the requests  *)
(* are served by threads or processes of the server, and their steps       *)
(* interleave.  write_text is an open that truncates the file and a write. *)
(***************************************************************************)
\* Lines 161-162: analysis_file.write_text opens the file for writing
PPersistOpen(r, outcome) ==
    /\ reqs[r].pc = "persist"
    /\ LET t == reqs[r].task_id
       IN IF t \notin DOMAIN tasks \/ outcome = "open failed"
          THEN /\ reqs' = [reqs EXCEPT ![r].pc = "tts", ![r].persisted = "open failed"]
               /\ UNCHANGED tasks
          ELSE /\ reqs' = [reqs EXCEPT ![r].pc = "write"]
               /\ tasks' = [tasks EXCEPT ![t].analysis = [exists |-> TRUE, doc |-> <<>>]]
    /\ UNCHANGED <<settings, tmp_dirs, uuid4_count>>

\* Lines 162-167: the document is written and the file closed; a failure
\* is logged and swallowed
PPersistWrite(r, outcome) ==
    /\ reqs[r].pc = "write"
    /\ LET t == reqs[r].task_id
           doc == PersistedDoc(reqs[r].analysis)
       IN IF t \notin DOMAIN tasks
          THEN UNCHANGED tasks
          ELSE IF outcome = "ok"
               THEN tasks' = [tasks EXCEPT ![t].analysis = [exists |-> TRUE, doc |-> doc]]
          ELSE \E part \in PartialDocs(doc) :
                  tasks' = [tasks EXCEPT ![t].analysis = [exists |-> TRUE, doc |-> part]]
    /\ reqs' = [reqs EXCEPT ![r].pc = "tts", ![r].persisted = outcome]
    /\ UNCHANGED <<settings, tmp_dirs, uuid4_count>>

\* Two requests with the same audio and text, without clips
NextRace ==
    \/ \E r \in Reqs :
           PStart(r, TextCatDog, AudioCat, None) /\ UNCHANGED <<diffVars, dlVars, wavVars, clipVars, cacheVars>>
    \/ \E r \in Reqs : PUpload(r) /\ UNCHANGED <<diffVars, dlVars, wavVars, clipVars, cacheVars>>
    \/ \E r \in Reqs : PLookup(r) /\ UNCHANGED <<diffVars, dlVars, wavVars, clipVars, cacheVars>>
    \/ \E r \in Reqs : PAnalyze(r) /\ UNCHANGED <<diffVars, dlVars, wavVars, clipVars, cacheVars>>
    \/ \E r \in Reqs, outcome \in {"ok", "open failed"} :
           PPersistOpen(r, outcome) /\ UNCHANGED <<diffVars, dlVars, wavVars, clipVars, cacheVars>>
    \/ \E r \in Reqs, outcome \in {"ok", "write failed"} :
           PPersistWrite(r, outcome) /\ UNCHANGED <<diffVars, dlVars, wavVars, clipVars, cacheVars>>
    \/ \E r \in Reqs : PRespond(r, {}) /\ UNCHANGED <<diffVars, dlVars, wavVars, clipVars, cacheVars>>
    \/ \E r \in Reqs : PCleanup(r) /\ UNCHANGED <<diffVars, dlVars, wavVars, clipVars, cacheVars>>

SpecRace == Init /\ [][NextRace]_vars

\* ---- the file systems and the requests of the model ----
DirNode == [kind |-> "dir", target |-> <<>>, content |-> ""]
FileNode(c) == [kind |-> "file", target |-> <<>>, content |-> c]
LinkNode(t) == [kind |-> "link", target |-> t, content |-> ""]
\* The file system that holds the nodes of a set of <<path, node>> pairs
MkFs(nodes) ==
    [p \in {n[1] : n \in nodes} |-> (CHOOSE n \in nodes : n[1] = p)[2]]

\* A task that exists on disk, and one that does not
KnownTaskId ==
    <<"3", "b", "1", "f", "8", "a", "5", "2", "-", "7", "c", "0", "e", "-",
      "5", "d", "4", "a", "-", "9", "e", "6", "b", "-", "0", "f", "2", "c",
      "4", "d", "6", "a", "8", "b", "1", "e">>
OtherTaskId ==
    <<"0", "0", "0", "0", "0", "0", "0", "0", "-", "0", "0", "0", "0", "-",
      "5", "0", "0", "0", "-", "8", "0", "0", "0", "-", "0", "0", "0", "0",
      "0", "0", "0", "0", "0", "0", "0", "1">>
UpperChar(c) ==
    IF c \in Range(LowerLetters)
    THEN UpperLetters[CHOOSE i \in 1..Len(LowerLetters) : LowerLetters[i] = c]
    ELSE c
TaskIdSamples ==
    { KnownTaskId,
      OtherTaskId,
      [i \in 1..Len(KnownTaskId) |-> UpperChar(KnownTaskId[i])],
      RemoveAll(KnownTaskId, <<"-">>),
      <<"{">> \o KnownTaskId \o <<"}">>,
      <<"u", "r", "n", ":", "u", "u", "i", "d", ":">> \o KnownTaskId,
      [KnownTaskId EXCEPT ![1] = "g"],
      <<".", ".", "/", ".", ".", "/", "e", "t", "c">>,
      <<>> }

ClipName == <<"a", ".", "m", "p", "3">>
OtherClipName == <<"a", "a", ".", "m", "p", "3">>
KnownTaskDir == _tasks_root \o <<KnownTaskId>>
KnownClipsDir == KnownTaskDir \o <<CorrectionAudio>>
AltDir == MEDIA_ROOT \o << <<"a", "l", "t">> >>
EtcDir == << <<"e", "t", "c">> >>
SecretFile == EtcDir \o << <<"s", "e", "c", "r", "e", "t">> >>

EntryKinds ==
    {"absent", "file", "dir", "link_inside", "link_outside", "link_dangling"}
\* The node at ClipName of directory dir, for each kind of entry
EntryNodes(dir, kind) ==
    IF kind = "file" THEN {<<Append(dir, ClipName), FileNode("clip a")>>}
    ELSE IF kind = "dir" THEN {<<Append(dir, ClipName), DirNode>>}
    ELSE IF kind = "link_inside"
         THEN {<<Append(dir, ClipName), LinkNode(Append(dir, OtherClipName))>>}
    ELSE IF kind = "link_outside"
         THEN {<<Append(dir, ClipName), LinkNode(SecretFile)>>}
    ELSE IF kind = "link_dangling"
         THEN {<<Append(dir, ClipName), LinkNode(Append(EtcDir, <<"n", "o">>))>>}
    ELSE {}
\* A file system: the task's clip directory is a directory, a symbolic link
\* to another directory, missing in an existing task directory, or missing
\* with the task directory (base), and holds an entry of a kind.
World(entry, base) ==
    LET common == { <<MEDIA_ROOT, DirNode>>, <<_tasks_root, DirNode>>,
                    <<EtcDir, DirNode>>, <<SecretFile, FileNode("secret")>> }
        dir == IF base = "link" THEN AltDir ELSE KnownClipsDir
        clips ==
            IF base = "absent" THEN {}
            ELSE IF base = "task_only" THEN { <<KnownTaskDir, DirNode>> }
            ELSE { <<KnownTaskDir, DirNode>>,
                   <<Append(dir, OtherClipName), FileNode("clip aa")>> }
                 \cup (IF base = "link"
                       THEN { <<AltDir, DirNode>>, <<KnownClipsDir, LinkNode(AltDir)>> }
                       ELSE { <<KnownClipsDir, DirNode>> })
                 \cup EntryNodes(dir, entry)
    IN MkFs(common \cup clips)
Worlds ==
    {World(e, "dir") : e \in EntryKinds}
        \cup {World("file", "link"), World("absent", "absent"),
              World("absent", "task_only")}

\* A name the pattern accepts that is one character longer than NAME_MAX
LongClipName == [i \in 1..(NAME_MAX - 3) |-> "a"] \o Mp3Suffix
StemChars == {"a", ".", "/", "_"}
NameTails == { <<>>, Mp3Suffix, Mp3Suffix \o <<"\n">> }
FilenameSamples ==
    { <<".", ".", "/", "s", "e", "c", "r", "e", "t", ".", "m", "p", "3">>,
      <<"x", ".", "m", "p", "3", ".", "s", "h">>,
      <<"1", "_", "c", "a", "t", ".", "m", "p", "3">>,
      <<"a", ".", "M", "P", "3">>,
      <<"a", "\\", "a", ".", "m", "p", "3">>,
      LongClipName }
Filenames ==
    {stem \o tail : stem \in SeqsUpTo(StemChars, MaxStemLen), tail \in NameTails}
        \cup FilenameSamples

InitDownload ==
    /\ fs \in Worlds
    /\ dl_pc = "idle"
    /\ dl_task_id = <<>>
    /\ dl_filename = <<>>
    /\ dl_base_dir = <<>>
    /\ dl_file_path = <<>>
    /\ dl_passed = {}
    /\ dl_fs_ops = <<>>
    /\ dl_response = NoResponse
    /\ DiffIdle
    /\ ProcIdle
    /\ WavIdle
    /\ ClipIdle
    /\ CacheIdle

NextDownload ==
    \/ \E task_id \in TaskIdSamples, filename \in Filenames :
           DlRequest(task_id, filename) /\ UNCHANGED <<diffVars, procVars, wavVars, clipVars, cacheVars>>
    \/ DlCheckTaskId /\ UNCHANGED <<diffVars, procVars, wavVars, clipVars, cacheVars>>
    \/ DlCheckFilename /\ UNCHANGED <<diffVars, procVars, wavVars, clipVars, cacheVars>>
    \/ DlResolve /\ UNCHANGED <<diffVars, procVars, wavVars, clipVars, cacheVars>>
    \/ DlStat /\ UNCHANGED <<diffVars, procVars, wavVars, clipVars, cacheVars>>
    \/ DlStatFails /\ UNCHANGED <<diffVars, procVars, wavVars, clipVars, cacheVars>>
    \/ DlOpen /\ UNCHANGED <<diffVars, procVars, wavVars, clipVars, cacheVars>>
    \/ DlOpenFails /\ UNCHANGED <<diffVars, procVars, wavVars, clipVars, cacheVars>>
    \/ DlReturn /\ UNCHANGED <<diffVars, procVars, wavVars, clipVars, cacheVars>>

SpecDownload == InitDownload /\ [][NextDownload]_vars

(***************************************************************************)
(* The mismatch detector as a program: calls of find_bad_words on texts    *)
(* drawn from a small vocabulary of raw words (mixed case, punctuation, a  *)
(* stopword, a two-letter word) and on the example of the specification.   *)
(***************************************************************************)
RawWords ==
    { <<"T", "h", "e">>, <<"c", "a", "t">>, <<"d", "o", "g", ",">>,
      <<"o", "x">> }
ExampleReference ==
    <<"T", "h", "e", " ", "c", "a", "t", " ", "s", "a", "t", " ", "o", "n",
      " ", "t", "h", "e", " ", "m", "a", "t">>
ExampleRecognized ==
    <<"t", "h", "e", " ", "c", "a", "t", " ", "s", "i", "t", " ", "o", "n",
      " ", "m", "a", "t">>
TextsUpTo(n) == {Join(ws, <<" ">>) : ws \in SeqsUpTo(RawWords, n)}
ReferenceTexts == TextsUpTo(MaxRefWords) \cup {ExampleReference}
RecognizedTexts == TextsUpTo(MaxRecWords) \cup {ExampleRecognized}

InitDiff ==
    /\ reference_text \in ReferenceTexts
    /\ recognized_text \in RecognizedTexts
    /\ orig_words = <<>>
    /\ rec_words = <<>>
    /\ flagged = <<>>
    /\ results = <<>>
    /\ DlIdle
    /\ ProcIdle
    /\ WavIdle
    /\ ClipIdle
    /\ CacheIdle

\* One call of find_bad_words(reference_text, recognized_text); the locals
\* of the call stay visible after it.
FindBadWordsCall ==
    /\ Len(results) < MaxCalls
    /\ orig_words' = _clean_text_words(reference_text)
    /\ rec_words' = _clean_text_words(recognized_text)
    /\ flagged' = BadIndices(orig_words', rec_words')
    /\ results' = Append(results,
                         FilterWords(BadWordsAt(orig_words', flagged'), 1, {}))
    /\ UNCHANGED <<reference_text, recognized_text>>
    /\ UNCHANGED <<dlVars, procVars, wavVars, clipVars, cacheVars>>

NextDiff == FindBadWordsCall

SpecDiff == InitDiff /\ [][NextDiff]_vars

(***************************************************************************)
(* Properties of the clip download (specification SpecDownload).           *)
(***************************************************************************)
\* A canonical UUID string: 8-4-4-4-12 lowercase hexadecimal digits
IsCanonicalUuid(s) ==
    /\ Len(s) = 36
    /\ \A i \in 1..36 :
        IF i \in {9, 14, 19, 24} THEN s[i] = "-" ELSE s[i] \in Range(HexLower)
\* One or more of [A-Za-z0-9_.-] followed by .mp3
ClipNameChars == LetterChars \cup DigitChars \cup {"_", ".", "-"}
MatchesClipPattern(f) ==
    /\ Len(f) >= 5
    /\ SubSeq(f, Len(f) - 3, Len(f)) = <<".", "m", "p", "3">>
    /\ \A i \in 1..(Len(f) - 4) : f[i] \in ClipNameChars
BothGatesHold == IsCanonicalUuid(dl_task_id) /\ MatchesClipPattern(dl_filename)

\* C1: a request whose task id is not a canonical UUID string or whose file
\* name does not match the pattern ends in the "invalid file name" client
\* error, the same for both gates, and no file system call is made before
\* both gates have passed; so for "../../etc", "../secret.mp3", "x.mp3.sh".
C1_GatesRejectBeforeFileSystem ==
    /\ (dl_pc = "done" /\ ~BothGatesHold)
         => (dl_response = InvalidFileName /\ dl_fs_ops = <<>>)
    /\ dl_fs_ops # <<>> => BothGatesHold
    /\ (dl_pc = "done"
        /\ \/ dl_task_id = <<".", ".", "/", ".", ".", "/", "e", "t", "c">>
           \/ dl_filename = <<".", ".", "/", "s", "e", "c", "r", "e", "t",
                              ".", "m", "p", "3">>
           \/ dl_filename = <<"x", ".", "m", "p", "3", ".", "s", "h">>)
         => dl_response = InvalidFileName
\* A request with a task id that parses as a UUID but is not canonical
\* (upper case) and the name of an existing clip was rejected.
C1_Witness ==
    /\ dl_pc = "done"
    /\ dl_task_id # KnownTaskId
    /\ Lower(dl_task_id) = KnownTaskId
    /\ dl_filename = ClipName
    /\ Append(KnownClipsDir, ClipName) \in DOMAIN fs
    /\ dl_response = InvalidFileName

\* The clip directory of the request and the requested file, resolved
RequestBaseDir == Resolve(fs, _tasks_root \o <<dl_task_id, CorrectionAudio>>)
RequestFilePath == Resolve(fs, JoinPath(RequestBaseDir, dl_filename))

\* C2: a file is streamed only when its resolved path is below the resolved
\* clip directory of the task, and a request whose file resolves outside of
\* it ends in the "invalid file name" rejection without content.
C2_ServedOnlyFromClipDirectory ==
    /\ dl_response.status = 200 =>
        /\ IsPrefix(RequestBaseDir, RequestFilePath)
        /\ RequestFilePath \in DOMAIN fs
        /\ dl_response.body = fs[RequestFilePath].content
    /\ (dl_pc = "done" /\ BothGatesHold
        /\ ~IsPrefix(RequestBaseDir, RequestFilePath))
         => dl_response = InvalidFileName
\* The requested name is a symbolic link to a file outside of the clip
\* directory, and the request was rejected.
C2_Witness ==
    /\ dl_pc = "done"
    /\ BothGatesHold
    /\ IsLink(fs, JoinPath(KnownClipsDir, dl_filename))
    /\ RequestFilePath = SecretFile
    /\ dl_response = InvalidFileName

\* C3 as stated: an accepted file name has no path separator and does not
\* begin with a dot.
C3_NoSeparatorNoLeadingDot ==
    "filename" \in dl_passed =>
        /\ \A i \in 1..Len(dl_filename) : dl_filename[i] # "/"
        /\ dl_filename[1] # "."
\* C3 as amended: an accepted file name has no path separator, so it is one
\* path component, and it is neither "." nor ".."; it may begin with a dot.
C3_NoSeparatorOneComponent ==
    "filename" \in dl_passed =>
        /\ \A i \in 1..Len(dl_filename) : dl_filename[i] \notin {"/", "\\"}
        /\ dl_filename \notin { <<".">>, <<".", ".">> }
        /\ PathParts(dl_filename) = <<dl_filename>>
\* The gate accepted a file name that begins with a dot.
C3_Witness ==
    /\ "filename" \in dl_passed
    /\ dl_filename[1] = "."

\* No regular file is at the resolved path of the request
NoRegularFile ==
    RequestFilePath \notin DOMAIN fs \/ fs[RequestFilePath].kind # "file"

\* C20: a request that passes both gates and the containment check while
\* no regular file is at the resolved path (the entry, the clip directory or
\* the task is missing, or the entry is not a regular file) ends in the
\* "file not found" outcome, which is not the "invalid file name" one.
C20_MissingFileIsNotFound ==
    /\ FileNotFound # InvalidFileName
    /\ (dl_pc = "done" /\ BothGatesHold
        /\ IsPrefix(RequestBaseDir, RequestFilePath) /\ NoRegularFile)
         => dl_response = FileNotFound

(***************************************************************************)
(* Properties of the mismatch detector (specification SpecDiff).           *)
(***************************************************************************)
\* The cleaned reference token sequence, as the claims define it
OrigWords == _clean_text_words(reference_text)
NoDuplicates(s) == \A m, n \in 1..Len(s) : m # n => s[m] # s[n]
\* The 0-based positions of w in the token sequence ws
Positions(ws, w) == {i \in 0..(Len(ws) - 1) : ws[i + 1] = w}
Min(S) == CHOOSE x \in S : \A y \in S : x <= y
\* The reference positions the opcode loop flagged
FlaggedSet == Range(flagged)
Returned(out) == \E k \in 1..Len(results) : results[k] = out

\* C7: the returned list has no duplicates and each of its words is a token
\* of the cleaned reference token sequence.
C7_NoDuplicatesSubsetOfReference ==
    \A k \in 1..Len(results) :
        /\ NoDuplicates(results[k])
        /\ \A n \in 1..Len(results[k]) : results[k][n] \in Range(OrigWords)
\* A call returned a word that was flagged at two positions of the reference.
C7_Witness ==
    \E k \in 1..Len(results) : \E n \in 1..Len(results[k]) :
        Cardinality(Positions(OrigWords, results[k][n]) \cap FlaggedSet) >= 2

\* C8 as stated: the returned words are in the order of their first
\* occurrence in the cleaned reference token sequence.
C8_OrderOfFirstOccurrence ==
    \A k \in 1..Len(results) : \A m, n \in 1..Len(results[k]) :
        m < n => Min(Positions(OrigWords, results[k][m]))
                   < Min(Positions(OrigWords, results[k][n]))
\* C8 as amended: the returned words are in the order of their first flagged
\* occurrence in the cleaned reference token sequence (the first position at
\* which the alignment flagged the word, which may come after an earlier,
\* matched occurrence of it), and the flagged positions are appended in
\* increasing order.
C8_OrderOfFirstFlaggedOccurrence ==
    /\ \A k \in 1..Len(results) : \A m, n \in 1..Len(results[k]) :
        m < n => Min(Positions(OrigWords, results[k][m]) \cap FlaggedSet)
                   < Min(Positions(OrigWords, results[k][n]) \cap FlaggedSet)
    /\ results # <<>> =>
        \A m, n \in 1..Len(flagged) : m < n => flagged[m] < flagged[n]
\* A call returned two words, the second of which occurs in the reference
\* before the first one does (its earlier occurrence was matched).
C8_Witness ==
    \E k \in 1..Len(results) :
        /\ Len(results[k]) >= 2
        /\ Min(Positions(OrigWords, results[k][2]))
             < Min(Positions(OrigWords, results[k][1]))

\* C9: on the reference "The cat sat on the mat" and the recognized text
\* "the cat sit on mat" every call returns exactly <<"sat">>.
C9_ExampleYieldsSat ==
    (reference_text = ExampleReference /\ recognized_text = ExampleRecognized)
        => \A k \in 1..Len(results) : results[k] = << <<"s", "a", "t">> >>
\* The example was submitted twice.
C9_Witness ==
    /\ reference_text = ExampleReference
    /\ recognized_text = ExampleRecognized
    /\ Len(results) = 2

\* The stopword set as the claim lists it
ClosedStopwords ==
    { <<"a">>, <<"a", "n">>, <<"t", "h", "e">>, <<"a", "n", "d">>,
      <<"o", "r">>, <<"i", "n">>, <<"o", "n">>, <<"a", "t">>, <<"t", "o">>,
      <<"o", "f">>, <<"i", "s">>, <<"a", "r", "e">>, <<"w", "a", "s">>,
      <<"w", "e", "r", "e">> }
\* C10: no returned word is a stopword or has two characters or fewer.
C10_NoStopwordNoShortWord ==
    \A k \in 1..Len(results) : \A n \in 1..Len(results[k]) :
        /\ results[k][n] \notin ClosedStopwords
        /\ Len(results[k][n]) > 2
\* A call flagged a stopword and a two-letter word and still returned a word.
C10_Witness ==
    /\ \E k \in 1..Len(results) : results[k] # <<>>
    /\ results # <<>>
    /\ \E i \in FlaggedSet : OrigWords[i + 1] \in ClosedStopwords
    /\ \E i \in FlaggedSet :
        Len(OrigWords[i + 1]) = 2 /\ OrigWords[i + 1] \notin ClosedStopwords

\* The opcodes of the call: the edit script over the two cleaned sequences
EditScript == get_opcodes(orig_words, rec_words)
\* The opcodes are an edit script: the runs follow one another and cover
\* both sequences, and an "equal" run is the same words on both sides
IsEditScript(ops, ow, rw) ==
    /\ \A n \in 1..Len(ops) :
          /\ ops[n][1] \in {"replace", "delete", "insert", "equal"}
          /\ ops[n][2] = (IF n = 1 THEN 0 ELSE ops[n - 1][3])
          /\ ops[n][4] = (IF n = 1 THEN 0 ELSE ops[n - 1][5])
          /\ ops[n][2] <= ops[n][3] /\ ops[n][4] <= ops[n][5]
          /\ ops[n][1] = "equal" =>
                SubSeq(ow, ops[n][2] + 1, ops[n][3]) = SubSeq(rw, ops[n][4] + 1, ops[n][5])
          /\ ops[n][1] = "delete" => ops[n][4] = ops[n][5]
          /\ ops[n][1] = "insert" => ops[n][2] = ops[n][3]
    /\ (IF ops = <<>> THEN 0 ELSE ops[Len(ops)][3]) = Len(ow)
    /\ (IF ops = <<>> THEN 0 ELSE ops[Len(ops)][5]) = Len(rw)
\* The reference index i (0-based) is to be flagged by the run op
ToBeFlagged(op, i) ==
    /\ op[2] <= i /\ i < op[3]
    /\ \/ op[1] = "delete"
       \/ /\ op[1] = "replace"
          /\ \/ i - op[2] >= op[5] - op[4]
             \/ orig_words[i + 1] # rec_words[op[4] + (i - op[2]) + 1]

\* C25: before the filter, the flagged reference tokens are exactly those
\* of the edit script over the two cleaned sequences that are in a "delete"
\* run, or in a "replace" run at an offset at or beyond the length of the
\* recognized run or with a different recognized token at that offset;
\* "equal" and "insert" runs flag nothing; equal sequences give no word.
C25_FlagsReplaceAndDeleteRuns ==
    results # <<>> =>
        /\ IsEditScript(EditScript, orig_words, rec_words)
        /\ Range(flagged) =
              {i \in 0..(Len(orig_words) - 1) :
                  \E n \in 1..Len(EditScript) : ToBeFlagged(EditScript[n], i)}
        /\ \A n \in 1..(Len(flagged) - 1) : flagged[n] < flagged[n + 1]
        /\ orig_words = rec_words =>
              flagged = <<>> /\ \A k \in 1..Len(results) : results[k] = <<>>
\* A call met a "replace" run whose reference side is longer than its
\* recognized side, and flagged the words beyond it.
C25_Witness ==
    /\ results # <<>>
    /\ \E n \in 1..Len(EditScript) :
          LET op == EditScript[n]
          IN /\ op[1] = "replace"
             /\ op[3] - op[2] > op[5] - op[4]
             /\ \A i \in (op[2] + (op[5] - op[4]))..(op[3] - 1) :
                    i \in Range(flagged)

(***************************************************************************)
(* The container validator as a program (specification SpecWav): a file   *)
(* is given and validate_wav_16k_mono is called on it.                     *)
(***************************************************************************)
WavChannels == {1, 2, 6}
WavFramerates == {8000, 16000, 44100}
WavSampwidths == {1, 2, 3, 4}
WavFiles ==
    {WavFile(c, f, w) : c \in WavChannels, f \in WavFramerates, w \in WavSampwidths}
        \cup {MalformedFile, UnreadableFile}

InitWav ==
    /\ wav_file \in WavFiles
    /\ wav_results = <<>>
    /\ DiffIdle
    /\ DlIdle
    /\ ProcIdle
    /\ ClipIdle
    /\ CacheIdle

ValidateWavCall ==
    /\ Len(wav_results) < MaxCalls
    /\ wav_results' = Append(wav_results, validate_wav_16k_mono(wav_file))
    /\ UNCHANGED <<wav_file, diffVars, dlVars, procVars, clipVars, cacheVars>>

NextWav == ValidateWavCall

SpecWav == InitWav /\ [][NextWav]_vars

(***************************************************************************)
(* Clip generation as a program (specification SpecClips): the view calls  *)
(* generate_correction_clips_yandex on a mismatch list, with the cap of    *)
(* the settings, on a clip directory that the calls fill.                  *)
(***************************************************************************)
LongWord == [i \in 1..42 |-> IF i = 40 THEN "-" ELSE "a"]
\* A plain word, two words with the same safe component, a word without
\* any safe character, and a word longer than the component may be
ClipWordSamples ==
    { <<"c", "a", "t">>, <<"i", "t", "'", "s">>, <<"i", "t", "_", "s">>,
      <<"\\u00e9">>, LongWord }
ClipSettings == {-1, 0, 1, 2}
\* The clip directory before the first call: empty, or with a first clip
ClipDirs == { <<>>, [f \in {ClipFilename(1, <<"c", "a", "t">>)} |->
                        <<"mp3 of", <<"c", "a", "t">> >>] }

\* The lists find_bad_words returns have no word twice
MismatchLists ==
    {ws \in SeqsUpTo(ClipWordSamples, MaxClipWords) :
        \A i, j \in 1..Len(ws) : i # j => ws[i] # ws[j]}

InitClips ==
    /\ clip_words \in MismatchLists
    /\ clip_setting \in ClipSettings
    /\ clip_dir \in ClipDirs
    /\ clip_results = <<>>
    /\ clip_runs = <<>>
    /\ DiffIdle
    /\ DlIdle
    /\ ProcIdle
    /\ WavIdle
    /\ CacheIdle

\* Lines 183-189 of the view and the generator: oks are the positions at
\* which the provider answers 200
GenerateClipsCall(oks) ==
    /\ Len(clip_results) < MaxCalls
    /\ LET max_clips == MaxClipsSetting(clip_setting)
           gen == generate_correction_clips_yandex(clip_words, clip_dir,
                                                   max_clips, oks)
       IN /\ clip_dir' = gen.clips
          /\ clip_results' = Append(clip_results,
                [pairs |-> gen.pairs, calls |-> gen.calls,
                 attempts |-> gen.attempts,
                 succeeded |-> oks \cap Range(gen.attempts),
                 before |-> DOMAIN clip_dir])
    /\ UNCHANGED <<clip_words, clip_setting, clip_runs>>
    /\ UNCHANGED <<diffVars, dlVars, procVars, wavVars, cacheVars>>

NextClips == \E oks \in SUBSET (1..Len(clip_words)) : GenerateClipsCall(oks)

SpecClips == InitClips /\ [][NextClips]_vars

(***************************************************************************)
(* Clip generation step by step (specification SpecClipRuns): requests of  *)
(* one task run generate_correction_clips_yandex on the same clip          *)
(* directory, and their steps interleave.                                  *)
(***************************************************************************)
ClipRunIds == {"A", "B"}
NoRun == [pc |-> "idle", words |-> <<>>, i |-> 0, body |-> <<>>, pairs |-> <<>>]
\* resp.content: the bytes the provider answers for a word, which need not
\* be the same from one call to the next
ClipBodies(word) == { <<"mp3 of", word>>, <<"mp3 of", word, "again">> }
\* out_file of the word the run is at
RunFilename(n) ==
    ClipFilename(clip_runs[n].i, clip_runs[n].words[clip_runs[n].i])

\* Lines 294-302: the call begins and truncates its list
RunStart(n) ==
    /\ clip_runs[n].pc = "idle"
    /\ LET max_clips == MaxClipsSetting(clip_setting)
       IN clip_runs' = [clip_runs EXCEPT ![n] =
              [pc |-> "check",
               words |-> IF max_clips > 0 THEN Slice(clip_words, 0, max_clips)
                         ELSE clip_words,
               i |-> 1, body |-> <<>>, pairs |-> <<>>]]
    /\ UNCHANGED <<clip_words, clip_setting, clip_dir, clip_results>>

\* Lines 303-308 and 320: the next word, and out_file.exists()
RunCheck(n) ==
    /\ clip_runs[n].pc = "check"
    /\ IF clip_runs[n].i > Len(clip_runs[n].words)
       THEN clip_runs' = [clip_runs EXCEPT ![n].pc = "done"]
       ELSE IF RunFilename(n) \in DOMAIN clip_dir
       THEN clip_runs' = [clip_runs EXCEPT
                ![n].pairs = Append(@, <<clip_runs[n].words[clip_runs[n].i],
                                         RunFilename(n)>>),
                ![n].i = @ + 1]
       ELSE clip_runs' = [clip_runs EXCEPT ![n].pc = "post"]
    /\ UNCHANGED <<clip_words, clip_setting, clip_dir, clip_results>>

\* synthesize_word_yandex, lines 226-227 and 231-237: requests.post answers
\* 200 with a body, or the call fails and the loop goes on (lines 315-318)
RunPost(n, body) ==
    /\ clip_runs[n].pc = "post"
    /\ IF body = <<>>
       THEN clip_runs' = [clip_runs EXCEPT ![n].pc = "check", ![n].i = @ + 1]
       ELSE clip_runs' = [clip_runs EXCEPT ![n].pc = "write", ![n].body = body]
    /\ UNCHANGED <<clip_words, clip_setting, clip_dir, clip_results>>

\* synthesize_word_yandex, lines 228-230: output_file.write_bytes, and line
\* 320 of the loop
RunWrite(n) ==
    /\ clip_runs[n].pc = "write"
    /\ clip_dir' = [f \in DOMAIN clip_dir \cup {RunFilename(n)} |->
                      IF f = RunFilename(n) THEN clip_runs[n].body
                      ELSE clip_dir[f]]
    /\ clip_runs' = [clip_runs EXCEPT
           ![n].pc = "check",
           ![n].pairs = Append(@, <<clip_runs[n].words[clip_runs[n].i],
                                    RunFilename(n)>>),
           ![n].i = @ + 1,
           ![n].body = <<>>]
    /\ UNCHANGED <<clip_words, clip_setting, clip_results>>

InitClipRuns ==
    /\ clip_words \in MismatchLists
    /\ clip_setting \in ClipSettings
    /\ clip_dir \in ClipDirs
    /\ clip_results = <<>>
    /\ clip_runs = [n \in ClipRunIds |-> NoRun]
    /\ DiffIdle
    /\ DlIdle
    /\ ProcIdle
    /\ WavIdle
    /\ CacheIdle

NextClipRuns ==
    \/ \E n \in ClipRunIds : RunStart(n) /\ UNCHANGED <<diffVars, dlVars, procVars, wavVars, cacheVars>>
    \/ \E n \in ClipRunIds : RunCheck(n) /\ UNCHANGED <<diffVars, dlVars, procVars, wavVars, cacheVars>>
    \/ \E n \in ClipRunIds :
          /\ clip_runs[n].pc = "post"
          /\ \E body \in {<<>>} \cup ClipBodies(clip_runs[n].words[clip_runs[n].i]) :
                RunPost(n, body) /\ UNCHANGED <<diffVars, dlVars, procVars, wavVars, cacheVars>>
    \/ \E n \in ClipRunIds : RunWrite(n) /\ UNCHANGED <<diffVars, dlVars, procVars, wavVars, cacheVars>>

SpecClipRuns == InitClipRuns /\ [][NextClipRuns]_vars

\* C22: a clip file that is in the clip directory of a task keeps its
\* content for ever, and no synthesis call is made for a file that is there:
\* a run that finds the file reuses it.
C22_ClipFilesNeverOverwritten ==
    [][/\ \A f \in DOMAIN clip_dir :
             f \in DOMAIN clip_dir' /\ clip_dir'[f] = clip_dir[f]
       /\ \A n \in DOMAIN clip_runs :
             (clip_runs[n].pc = "post" /\ clip_runs'[n].pc # "post")
                => RunFilename(n) \notin DOMAIN clip_dir]_vars

(***************************************************************************)
(* The model cache (specification SpecModelCache): the threads of the      *)
(* server call _get_vosk_model, and their steps interleave.                *)
(***************************************************************************)
CacheThreadIds == {"t1", "t2"}
\* Two names of one model directory, and another model directory
ModelPaths == {"/models/en", "/models/link-to-en", "/models/ru"}
\* str(model_path.resolve())
ResolveModelPath(model_path) ==
    IF model_path = "/models/link-to-en" THEN "/models/en" ELSE model_path
NoModelCall == [pc |-> "idle", model_path |-> "", key |-> "", model |-> 0]

\* Line 156: the call begins and computes its key
GetModelCall(t, model_path) ==
    /\ model_threads[t].pc = "idle"
    /\ Len(model_returned) < MaxCalls
    /\ model_threads' = [model_threads EXCEPT ![t] =
           [pc |-> "check", model_path |-> model_path,
            key |-> ResolveModelPath(model_path), model |-> 0]]
    /\ UNCHANGED <<vosk_installed, model_cache, model_loaded, model_returned>>

\* Lines 157-161: key not in _MODEL_CACHE, and the ImportError
GetModelCheck(t) ==
    /\ model_threads[t].pc = "check"
    /\ model_threads' = [model_threads EXCEPT ![t].pc =
           IF model_threads[t].key \in DOMAIN model_cache THEN "return"
           ELSE IF ~vosk_installed THEN "idle"
           ELSE "load"]
    /\ UNCHANGED <<vosk_installed, model_cache, model_loaded, model_returned>>

\* Line 162, right-hand side: Model(str(model_path)) loads the model from
\* the disk; the handles are numbered in the order of the loads
GetModelLoad(t) ==
    /\ model_threads[t].pc = "load"
    /\ model_loaded' = Append(model_loaded, model_threads[t].key)
    /\ model_threads' = [model_threads EXCEPT
           ![t].pc = "store", ![t].model = Len(model_loaded) + 1]
    /\ UNCHANGED <<vosk_installed, model_cache, model_returned>>

\* Line 162, the assignment _MODEL_CACHE[key] = ...
GetModelStore(t) ==
    /\ model_threads[t].pc = "store"
    /\ model_cache' =
          [k \in DOMAIN model_cache \cup {model_threads[t].key} |->
              IF k = model_threads[t].key THEN model_threads[t].model
              ELSE model_cache[k]]
    /\ model_threads' = [model_threads EXCEPT ![t].pc = "return"]
    /\ UNCHANGED <<vosk_installed, model_loaded, model_returned>>

\* Line 163: return _MODEL_CACHE[key]
GetModelReturn(t) ==
    /\ model_threads[t].pc = "return"
    /\ model_returned' =
          Append(model_returned,
                 <<model_threads[t].key, model_cache[model_threads[t].key]>>)
    /\ model_threads' = [model_threads EXCEPT ![t] = NoModelCall]
    /\ UNCHANGED <<vosk_installed, model_cache, model_loaded>>

InitModelCache ==
    /\ vosk_installed \in BOOLEAN
    /\ model_cache = <<>>
    /\ model_loaded = <<>>
    /\ model_threads = [t \in CacheThreadIds |-> NoModelCall]
    /\ model_returned = <<>>
    /\ DiffIdle
    /\ DlIdle
    /\ ProcIdle
    /\ WavIdle
    /\ ClipIdle

NextModelCache ==
    \/ \E t \in CacheThreadIds, model_path \in ModelPaths :
          GetModelCall(t, model_path) /\ UNCHANGED <<diffVars, dlVars, procVars, wavVars, clipVars>>
    \/ \E t \in CacheThreadIds : GetModelCheck(t) /\ UNCHANGED <<diffVars, dlVars, procVars, wavVars, clipVars>>
    \/ \E t \in CacheThreadIds : GetModelLoad(t) /\ UNCHANGED <<diffVars, dlVars, procVars, wavVars, clipVars>>
    \/ \E t \in CacheThreadIds : GetModelStore(t) /\ UNCHANGED <<diffVars, dlVars, procVars, wavVars, clipVars>>
    \/ \E t \in CacheThreadIds : GetModelReturn(t) /\ UNCHANGED <<diffVars, dlVars, procVars, wavVars, clipVars>>

SpecModelCache == InitModelCache /\ [][NextModelCache]_vars

\* C24: the model of a resolved path is loaded at most once, whatever the
\* order of the steps of the calls, and all the calls for that path return
\* the same handle.
C24_ModelLoadedOncePerPath ==
    /\ \A i, j \in 1..Len(model_loaded) :
          i # j => model_loaded[i] # model_loaded[j]
    /\ \A i, j \in 1..Len(model_returned) :
          model_returned[i][1] = model_returned[j][1]
             => model_returned[i][2] = model_returned[j][2]

(***************************************************************************)
(* Properties of clip generation (specification SpecClips).                *)
(***************************************************************************)
\* The descriptors are those of increasing positions among the first cap
\* words of the list
FromFirstWords(pairs, words, cap) ==
    LET m == IF cap < Len(words) THEN cap ELSE Len(words)
    IN \E pos \in [1..Len(pairs) -> 1..m] :
          /\ \A k \in 1..Len(pairs) :
                /\ pairs[k][1] = words[pos[k]]
                /\ pairs[k][2] = ClipFilename(pos[k], words[pos[k]])
          /\ \A k \in 1..(Len(pairs) - 1) : pos[k] < pos[k + 1]
Capped(result, words, cap) ==
    /\ Len(result.pairs) <= cap
    /\ result.calls <= cap
    /\ FromFirstWords(result.pairs, words, cap)

\* C14 as stated: whatever the configured cap, a call returns at most that
\* many descriptors, calls the provider at most that many times, and the
\* descriptors are for the first words of the list up to the cap, in order.
C14_AtMostMaxClips ==
    \A k \in 1..Len(clip_results) :
        Capped(clip_results[k], clip_words, clip_setting)
\* C14 as amended: the same for a configured cap above 0; a configured cap
\* of 0 stands for the default of 25; a configured cap below 0 is no cap,
\* and the call works on the whole list.
C14_AtMostPositiveMaxClips ==
    \A k \in 1..Len(clip_results) :
        Capped(clip_results[k], clip_words,
               IF clip_setting > 0 THEN clip_setting
               ELSE IF clip_setting = 0 THEN 25
               ELSE Len(clip_words))
\* With a cap of 1 and two words for which the provider answers, one call
\* to the provider was made and one descriptor returned.
C14_Witness ==
    /\ clip_setting = 1 /\ Len(clip_words) = 2 /\ clip_dir # <<>>
    /\ clip_results # <<>>
    /\ clip_results[1].calls = 1
    /\ Len(clip_results[1].pairs) = 1

\* C15: the file name generated for each position of the list is accepted
\* by the file name gate of the download endpoint, and two positions of
\* one list never get the same file name.
C15_GeneratedNamesPassGate ==
    /\ \A i \in 1..Len(clip_words) :
          /\ FilenameGate(ClipFilename(i, clip_words[i]))
          /\ \A j \in 1..Len(clip_words) :
                i # j => ClipFilename(i, clip_words[i]) # ClipFilename(j, clip_words[j])
    /\ \A k \in 1..Len(clip_results) :
          LET pairs == clip_results[k].pairs
          IN /\ \A n \in 1..Len(pairs) : FilenameGate(pairs[n][2])
             /\ \A m, n \in 1..Len(pairs) : m # n => pairs[m][2] # pairs[n][2]
    /\ \A f \in DOMAIN clip_dir : FilenameGate(f)
\* Two words with the same safe component got a clip each.
C15_Witness ==
    /\ Len(clip_words) = 2
    /\ clip_words[1] # clip_words[2]
    /\ _safe_filename_part(clip_words[1]) = _safe_filename_part(clip_words[2])
    /\ \E k \in 1..Len(clip_results) : Len(clip_results[k].pairs) = 2

\* The list the loop of a call works on: the first words up to the cap
TruncatedWords ==
    IF clip_setting > 0 THEN Slice(clip_words, 0, clip_setting)
    ELSE IF clip_setting = 0 THEN Slice(clip_words, 0, 25)
    ELSE clip_words
\* The positions of the truncated list whose clip file is in the set files
\* or whose synthesis is in the set succeeded, in the order of the list
KeptPositions(files, succeeded) ==
    SelectSeq([i \in 1..Len(TruncatedWords) |-> i],
              LAMBDA i : \/ ClipFilename(i, TruncatedWords[i]) \in files
                         \/ i \in succeeded)

\* C23: a failed synthesis for one word does not end the batch: synthesis
\* is attempted for every word of the truncated list that has no clip file
\* yet, whatever happened to the words before it, and the call returns, in
\* the order of the list, exactly the words whose clip file was there or
\* whose synthesis succeeded, each with the file name of its position.
C23_BestEffortPerWord ==
    \A k \in 1..Len(clip_results) :
        LET res == clip_results[k]
            kept == KeptPositions(res.before, res.succeeded)
        IN /\ res.attempts =
                 SelectSeq([i \in 1..Len(TruncatedWords) |-> i],
                           LAMBDA i : ClipFilename(i, TruncatedWords[i]) \notin res.before)
           /\ res.calls = Len(res.attempts)
           /\ res.pairs =
                 [n \in 1..Len(kept) |->
                     <<TruncatedWords[kept[n]],
                       ClipFilename(kept[n], TruncatedWords[kept[n]])>>]
\* The synthesis of the first word failed, the second word was attempted
\* and got its clip, and the call returned the second word alone.
C23_Witness ==
    \E k \in 1..Len(clip_results) :
        LET res == clip_results[k]
        IN /\ Len(TruncatedWords) = 2
           /\ res.attempts = <<1, 2>>
           /\ res.succeeded = {2}
           /\ res.pairs = << <<clip_words[2], ClipFilename(2, clip_words[2])>> >>

(***************************************************************************)
(* Properties of the container validator (specification SpecWav).          *)
(***************************************************************************)
\* The header field a failure reason names, "" when it names none
ReasonField(reason) ==
    IF reason[1] = "Audio must be mono (1 channel). Got channels=" THEN "channels"
    ELSE IF reason[1] = "Audio must be 16000 Hz sample rate. Got framerate="
         THEN "sample rate"
    ELSE IF reason[1] = "Unexpected sample width (bytes per sample): "
         THEN "sample width"
    ELSE ""
\* The header fields of the file that the validator does not accept
ViolatedFields(wav) ==
    {f \in {"channels", "sample rate", "sample width"} :
        \/ f = "channels" /\ wav.channels # 1
        \/ f = "sample rate" /\ wav.framerate # 16000
        \/ f = "sample width" /\ wav.sampwidth \notin {2, 3, 4}}

\* C11: the validator succeeds exactly when the header has one channel,
\* 16000 Hz and a sample width of 2, 3 or 4 bytes; on another header it
\* fails with a reason that names a field the header violates, and on a
\* file that cannot be parsed it fails with a reason that names no field.
C11_ValidatorAcceptsExactlyMono16k ==
    \A k \in 1..Len(wav_results) :
        LET ok == wav_results[k][1]
            reason == wav_results[k][2]
        IN /\ ok <=> (wav_file.kind = "wav" /\ ViolatedFields(wav_file) = {})
           /\ (~ok /\ wav_file.kind = "wav") =>
                  ReasonField(reason) \in ViolatedFields(wav_file)
           /\ wav_file.kind # "wav" =>
                  /\ ~ok
                  /\ ReasonField(reason) = ""
                  /\ reason[1] \in {"Invalid WAV file: ", "Could not read WAV file: "}
\* A mono file with a wrong sample rate and a wrong sample width was
\* rejected for its sample rate.
C11_Witness ==
    /\ wav_results # <<>>
    /\ wav_file.kind = "wav"
    /\ ViolatedFields(wav_file) = {"sample rate", "sample width"}
    /\ ReasonField(wav_results[1][2]) = "sample rate"

(***************************************************************************)
(* Properties of the processing operation (specification Spec).            *)
(***************************************************************************)
\* Requests r and q carry the same audio bytes and the same reference text
SameInput(r, q) ==
    /\ r < q
    /\ reqs[r].chunks # <<>>
    /\ Flatten(reqs[r].chunks) = Flatten(reqs[q].chunks)
    /\ reqs[r].text = reqs[q].text
\* Request q is the call that follows request r, with the same input
Resubmitted(r, q) == q = r + 1 /\ SameInput(r, q)
Succeeded(r) == reqs[r].pc = "done" /\ reqs[r].response.status = 200
SameResults(a, b) ==
    /\ a.taskId = b.taskId
    /\ a.recognizedText = b.recognizedText
    /\ a.mispronouncedWords = b.mispronouncedWords

\* C4 as stated: of two calls in sequence with the same audio bytes and
\* reference text, the first ending in success, both return the same task
\* identifier, recognizedText and mispronouncedWords, and the second one
\* does not invoke the speech recognizer.
C4_SecondCallIsCacheHit ==
    \A r, q \in Reqs :
        (Resubmitted(r, q) /\ Succeeded(r) /\ reqs[q].pc = "done") =>
            /\ reqs[q].response.status = 200
            /\ SameResults(reqs[r].response, reqs[q].response)
            /\ reqs[q].recognizer_calls = 0
\* C4 as amended: of two calls in sequence with the same audio bytes and
\* reference text, the first ending in success and the second passing its
\* request checks, both work on the same task identifier.  When the second
\* call finds the analysis record in the store and can parse it, it succeeds
\* with the task identifier, recognizedText and mispronouncedWords of the
\* first call without invoking the speech recognizer.  When it finds no
\* record (the write is best effort, and cleanup removes records) it
\* invokes the recognizer again and answers from that run, and when it
\* finds a record it cannot parse it succeeds with an empty recognizedText
\* and no mispronouncedWords without invoking the recognizer.
C4_SecondCallHitsIntactRecord ==
    \A r, q \in Reqs :
        (Resubmitted(r, q) /\ Succeeded(r) /\ reqs[q].pc = "done"
         /\ reqs[q].found # "") =>
            /\ reqs[q].task_id = reqs[r].response.taskId
            /\ reqs[q].found = "intact" =>
                /\ reqs[q].response.status = 200
                /\ SameResults(reqs[r].response, reqs[q].response)
                /\ reqs[q].recognizer_calls = 0
            /\ reqs[q].found = "absent" =>
                /\ reqs[q].recognizer_calls = 1
                /\ reqs[q].response.status = 200 =>
                      reqs[q].response.taskId = reqs[r].response.taskId
            /\ reqs[q].found = "corrupt" =>
                /\ reqs[q].response.status = 200
                /\ reqs[q].response.taskId = reqs[r].response.taskId
                /\ reqs[q].response.recognizedText = <<>>
                /\ reqs[q].response.mispronouncedWords = <<>>
                /\ reqs[q].recognizer_calls = 0
\* The second of two successful calls with the same input found the record
\* of the first one and answered from it with at least one flagged word.
C4_Witness ==
    \E r, q \in Reqs :
        /\ Resubmitted(r, q) /\ Succeeded(r) /\ Succeeded(q)
        /\ reqs[r].found = "absent" /\ reqs[r].recognizer_calls = 1
        /\ reqs[q].found = "intact" /\ reqs[q].recognizer_calls = 0
        /\ reqs[q].response.mispronouncedWords # <<>>

\* C5: a call that finds an analysis record it cannot parse treats it as a
\* cache miss: it runs recognition and mismatch detection, overwrites the
\* record with the recomputed result and returns that result.
C5_CorruptRecordRecomputed ==
    \A r \in Reqs :
        (reqs[r].found = "corrupt" /\ reqs[r].pc = "cleanup") =>
            LET recognized == recognize_speech_vosk(Flatten(reqs[r].chunks))
                record == tasks[reqs[r].task_id].analysis
            IN /\ reqs[r].recognizer_calls = 1
               /\ reqs[r].response.status = 200
               /\ reqs[r].response.recognizedText = recognized
               /\ reqs[r].response.mispronouncedWords =
                      find_bad_words(reqs[r].text, recognized)
               /\ record.exists /\ ~JsonLoadsRaises(record.doc)
               /\ JsonLoads(record.doc).recognizedText = recognized

\* C6: two requests with the same audio bytes and the same reference text
\* obtain the same task identifier, whatever the chunks the audio comes in,
\* the temp directory, the enable_tts flag, the content of the task store
\* and the requests before them.
C6_TaskIdFunctionOfInput ==
    \A r, q \in Reqs :
        (SameInput(r, q) /\ reqs[r].task_id # <<>> /\ reqs[q].task_id # <<>>)
            => reqs[r].task_id = reqs[q].task_id
\* Two requests with the same input got their task identifier although the
\* audio came in other chunks, in another temp directory, with another
\* enable_tts flag and with another state of the store.
C6_Witness ==
    \E r, q \in Reqs :
        /\ SameInput(r, q)
        /\ reqs[r].task_id # <<>> /\ reqs[r].task_id = reqs[q].task_id
        /\ reqs[r].chunks # reqs[q].chunks
        /\ reqs[r].tmp_id # reqs[q].tmp_id
        /\ reqs[r].enable_tts # reqs[q].enable_tts
        /\ reqs[r].found # reqs[q].found

\* The request has been answered and its call is still known
Answered(r) == reqs[r].pc \in {"cleanup", "done"}
\* A setting that is empty or white space is not configured
Blank(value) == \A i \in 1..Len(value) : value[i] \in SpaceChars
CredentialsMissing ==
    Blank(settings.YANDEX_API_KEY) \/ Blank(settings.YANDEX_FOLDER_ID)

\* C12: a request with enable_tts true while the API key or the folder id is
\* not configured ends in a client error before any work: no temp directory
\* and no upload is written, the container is not validated, the recognizer
\* and the provider are not called, no task directory and no record is made.
C12_MissingCredentialsRejectedFirst ==
    /\ [](\A r \in Reqs :
            (reqs[r].pc \notin {"idle", "gone"} /\ reqs[r].enable_tts
             /\ CredentialsMissing) =>
                /\ reqs[r].pc = "done"
                /\ reqs[r].response =
                       ErrorResponse(400, "YANDEX_API_KEY/YANDEX_FOLDER_ID not configured")
                /\ reqs[r].tmp_id = 0 /\ reqs[r].chunks = <<>>
                /\ reqs[r].cache_key = <<>> /\ reqs[r].task_id = <<>>
                /\ reqs[r].found = "" /\ reqs[r].persisted = ""
                /\ reqs[r].recognizer_calls = 0 /\ reqs[r].tts_calls = 0)
    /\ [][\A r \in Reqs :
            (reqs[r].pc = "idle" /\ reqs'[r].pc # "idle" /\ reqs'[r].enable_tts
             /\ CredentialsMissing) =>
                /\ reqs'[r].pc = "done"
                /\ UNCHANGED <<tasks, tmp_dirs, uuid4_count>>]_vars
\* With a blank API key, a request with enable_tts true was rejected while
\* the store holds the record of an earlier request without the flag.
C12_Witness ==
    \E r, q \in Reqs :
        /\ r < q /\ Succeeded(r) /\ reqs[r].task_id \in DOMAIN tasks
        /\ reqs[q].pc = "done" /\ reqs[q].enable_tts
        /\ settings.YANDEX_API_KEY = <<" ">>
        /\ reqs[q].response.status = 400

Silent(r) ==
    /\ reqs[r].chunks # <<>>
    /\ recognize_speech_vosk(Flatten(reqs[r].chunks)) = <<>>
\* C17: when the recognizer yields an empty transcript the request ends in
\* an error response, the mismatch detection is not run and no record is
\* written for the task; a later request with the same input finds no
\* record.
C17_EmptyTranscriptShortCircuits ==
    /\ \A r \in Reqs :
        (reqs[r].recognizer_calls = 1 /\ Silent(r)) =>
            /\ Answered(r)
            /\ reqs[r].response =
                   ErrorResponse(500, "internal server error while processing audio")
            /\ reqs[r].analysis = EmptyDict
            /\ reqs[r].persisted = ""
            /\ reqs[r].task_id \in DOMAIN tasks
                  => ~tasks[reqs[r].task_id].analysis.exists
    /\ \A r, q \in Reqs :
        (SameInput(r, q) /\ Silent(r) /\ reqs[r].task_id # <<>>
         /\ reqs[q].found # "") => reqs[q].found = "absent"
\* Silence was submitted twice; both requests called the recognizer and
\* ended in the error, and the task directory holds no record.
C17_Witness ==
    \E r, q \in Reqs :
        /\ Resubmitted(r, q) /\ Silent(r)
        /\ reqs[r].pc = "done" /\ reqs[r].recognizer_calls = 1
        /\ reqs[q].pc = "done" /\ reqs[q].recognizer_calls = 1
        /\ reqs[q].found = "absent"
        /\ reqs[q].response.status = 500
        /\ reqs[q].task_id \in DOMAIN tasks

\* name.lower().endswith('.wav')
HasWavSuffix(name) ==
    /\ Len(name) >= 4
    /\ Lower(SubSeq(name, Len(name) - 3, Len(name))) = <<".", "w", "a", "v">>
\* C18: a request whose audio file name lacks the .wav suffix is rejected
\* with a client error before any recognition work.
C18_NonWavNameRejected ==
    \A r \in Reqs :
        (reqs[r].pc = "done" /\ reqs[r].audio_name # <<>>
         /\ ~HasWavSuffix(reqs[r].audio_name)) =>
            /\ reqs[r].response.status = 400
            /\ reqs[r].recognizer_calls = 0

\* The write of the record failed in request r
WriteFailed(r) == reqs[r].persisted \in {"open failed", "write failed"}
\* C19: when the write of the record fails, the request still succeeds and
\* returns the transcript and the words it computed, and the next request
\* with the same input finds no record and computes them again.
C19_WriteFailureOnlyCostsRecomputation ==
    /\ \A r \in Reqs :
        (WriteFailed(r) /\ reqs[r].pc = "done") =>
            /\ reqs[r].response.status = 200
            /\ reqs[r].response.recognizedText =
                   recognize_speech_vosk(Flatten(reqs[r].chunks))
            /\ reqs[r].response.mispronouncedWords =
                   find_bad_words(reqs[r].text, reqs[r].response.recognizedText)
    /\ \A r, q \in Reqs :
        (Resubmitted(r, q) /\ WriteFailed(r) /\ reqs[q].pc = "done"
         /\ reqs[q].found # "") =>
            /\ reqs[q].found = "absent"
            /\ reqs[q].recognizer_calls = 1
            /\ SameResults(reqs[r].response, reqs[q].response)

\* The request has computed its fingerprint
Fingerprinted(r) == reqs[r].cache_key # <<>>

\* C26: two requests have the same fingerprint, and so the same task id,
\* only if their audio bytes are equal and their reference texts are equal;
\* bytes moved from the end of the audio to the start of the text give
\* another fingerprint.
C26_FingerprintTellsInputsApart ==
    \A r, q \in Reqs :
        (Fingerprinted(r) /\ Fingerprinted(q)
         /\ reqs[r].cache_key = reqs[q].cache_key)
            => /\ Flatten(reqs[r].chunks) = Flatten(reqs[q].chunks)
               /\ reqs[r].text = reqs[q].text

\* What a request of the input of r that runs alone computes
LoneRecognized(r) == recognize_speech_vosk(Flatten(reqs[r].chunks))
LoneAnalysis(r) ==
    [has |-> TRUE, recognizedText |-> LoneRecognized(r),
     mispronouncedWords |-> find_bad_words(reqs[r].text, LoneRecognized(r))]

\* C21: of two requests with the same audio and text whose steps
\* interleave, each one that succeeds returns the recognizedText and the
\* mispronouncedWords a request running alone returns, and once both have
\* finished and the writes went through, the stored record is that result.
C21_ConcurrentRequestsAgree ==
    /\ \A r \in Reqs :
          (reqs[r].pc = "done" /\ reqs[r].response.status = 200) =>
              /\ reqs[r].response.recognizedText = LoneAnalysis(r).recognizedText
              /\ reqs[r].response.mispronouncedWords =
                     LoneAnalysis(r).mispronouncedWords
    /\ \A r \in Reqs :
          ((\A q \in Reqs : reqs[q].pc = "done" /\ reqs[q].persisted \in {"", "ok"})
           /\ reqs[r].persisted = "ok") =>
              tasks[reqs[r].task_id].analysis =
                  [exists |-> TRUE, doc |-> JsonDumps(LoneAnalysis(r))]

=============================================================================
